---- MODULE Spec2Model ----
(***************************************************************************)
(* Model of the batch grading and transcription workers of                 *)
(* IntegratedWritingGrader (app/workers/grading_worker.py and              *)
(* app/workers/ocr_worker.py).                                             *)
(*                                                                         *)
(* Text written by the external tool is a sequence of tokens.  A token is  *)
(* a record [k, pt, p, v]:                                                 *)
(*   k  = "fence" (three backticks), "nl" (newline), "word" (prose or the  *)
(*        info string after a fence), "lb" and "rb" (square brackets),     *)
(*        "comma", "num" (a JSON number), "obj" (a JSON object);           *)
(*   pt = the JSON type of the object's "page" member: "int", "str",       *)
(*        "null" or "absent";  p = its value;                              *)
(*   v  = the object's "total_score" member (grading answers) or a code    *)
(*        of its "text" member (transcription answers);                    *)
(*   br = the square brackets written inside the object: "" for none,      *)
(*        "[]" for a nested array or a string holding a balanced pair,     *)
(*        "]" or "[" for a string holding that single bracket.             *)
(* Messages of the source that are Japanese text are written in English.   *)
(***************************************************************************)
EXTENDS Integers, Sequences, FiniteSets, TLC

VARIABLES
    \* ---- harness of the pure functions
    upc,          \* position of the harness: "input", "done", or "off"
    segs,         \* the segments the input text is made of
    items,        \* the objects the input text holds as one JSON array
    text,         \* input text of _extract_all_json_arrays / _parse_batch_result
    merged,       \* value returned by _extract_all_json_arrays
    expected,     \* page_numbers argument of _parse_batch_result
    results,      \* [raised, results] of _parse_batch_result
    fn_in,        \* argument of the other pure functions under check
    fn_out,       \* the value the function returned
    \* ---- GradingWorker
    pc,           \* position of GradingWorker.run
    setup,        \* what run() finds: "ok", "no_week", "no_prompt"
    image_files,  \* per image the number in its file name (0: no page_<n>)
    ocr_results,  \* self._ocr_results (<<>> for None)
    is_cancelled, \* self._is_cancelled
    page_numbers, \* page_numbers of _grade_batch_with_cli
    path,         \* the loop taken: "image", "ocr", "fallback"
    valid_pages,  \* valid_pages of _grade_ocr_batch: <<index, page, text>>
    all_results,  \* all_results
    batch_start,  \* batch_start of the running loop
    raw_output,   \* stdout of the first call while the retry call runs
    parsed,       \* parsed of _run_cli_and_parse while the retry call runs
    signals,      \* the Qt signals emitted so far, in order
    finished_list,\* the list carried by the finished signal
    calls,        \* history: the external invocations, in order
    \* ---- harness of the batch loops
    spc,          \* position of the harness: "loop", "done", or "off"
    split_list,   \* the list a loop walks through
    split_size,   \* the batch size of the loop
    split_loop,   \* "grading" (lines 271-277) or "transcription" (131-135)
    split_start,  \* batch_start
    batches,      \* history: the batches formed so far
    \* ---- OcrWorker
    ocr_pc,       \* position of OcrWorker.run
    session,      \* number of the run (each run is a new OcrWorker)
    gemini_cmd,   \* _find_gemini_command() found the tool
    cache_path,   \* _get_cache_path() returned a path
    cache_file,   \* ocr_cache.json: [exists, version, pages]
    cached_pages, \* the entries loaded from the cache file (line 92-95)
    ocr_images,   \* per image [no, hash]: number in its name, content digest
    ocr_page_numbers, \* self._page_numbers
    ocr_out,      \* results of OcrWorker.run
    pending_indices,  \* pending_indices (input positions, 1-based)
    all_ocr_texts,    \* all_ocr_texts: page number -> text
    ocr_batch_start,  \* batch_start of OcrWorker.run
    ocr_cancelled,    \* self._is_cancelled of the OcrWorker
    ocr_signals,  \* the Qt signals of the OcrWorker, in order
    ocr_finished, \* the list carried by its finished signal
    ocr_calls,    \* history: the invocations of this run, in order
    \* -- the main window and the additional-answer panel
    workers,      \* the QThread workers created so far, in order of creation
    gui_queue,    \* signals queued for the GUI thread: [w, sig]
    mw_is_running,      \* ProgressPanel._is_running
    mw_grading_worker,  \* MainWindow._grading_worker (0 for None)
    ap_is_grading,      \* AdditionalAnswerPanel._is_grading
    ap_ocr_worker,      \* AdditionalAnswerPanel._ocr_worker (0 for None)
    ap_grading_worker,  \* AdditionalAnswerPanel._grading_worker (0 for None)
    ap_pending_image_files, \* AdditionalAnswerPanel._pending_image_files
    handled       \* history: the signals of stopped workers handled in a later run

uvars == <<upc, segs, items, text, merged, expected, results, fn_in, fn_out>>
gvars == <<pc, setup, image_files, ocr_results, is_cancelled, page_numbers,
           path, valid_pages, all_results, batch_start, raw_output, parsed,
           signals, finished_list, calls>>
svars == <<spc, split_list, split_size, split_loop, split_start, batches>>
ovars == <<ocr_pc, session, gemini_cmd, cache_path, cache_file, cached_pages,
           ocr_images,
           ocr_page_numbers, ocr_out, pending_indices, all_ocr_texts,
           ocr_batch_start, ocr_cancelled, ocr_signals, ocr_finished, ocr_calls>>
wvars == <<workers, gui_queue, mw_is_running, mw_grading_worker, ap_is_grading,
           ap_ocr_worker, ap_grading_worker, ap_pending_image_files, handled>>
vars == <<uvars, gvars, svars, ovars, wvars>>

\* ------------------------------------------------------------------------
\* Python helpers
\* ------------------------------------------------------------------------
Min(a, b) == IF a <= b THEN a ELSE b

\* Python's None where a number is expected (scores are never negative).
None == -1

\* s[a:b] of Python: 0-based, half open, clamped to the length.
PySlice(s, a, b) == SubSeq(s, a + 1, Min(b, Len(s)))

\* str.startswith
StartsWith(s, prefix) ==
    Len(s) >= Len(prefix) /\ SubSeq(s, 1, Len(prefix)) = prefix

RECURSIVE Concat(_)
Concat(ss) == IF ss = <<>> THEN <<>> ELSE Head(ss) \o Concat(Tail(ss))

RECURSIVE Reverse(_)
Reverse(s) == IF s = <<>> THEN <<>> ELSE Append(Reverse(Tail(s)), Head(s))

\* ------------------------------------------------------------------------
\* Tokens and texts
\* ------------------------------------------------------------------------
Tok(k) == [k |-> k, pt |-> "", p |-> 0, v |-> 0, br |-> ""]
Obj(pt, p, v) == [k |-> "obj", pt |-> pt, p |-> p, v |-> v, br |-> ""]
ObjBr(pt, p, v, br) == [k |-> "obj", pt |-> pt, p |-> p, v |-> v, br |-> br]
Fence == Tok("fence")
NL == Tok("nl")
Word == Tok("word")
LB == Tok("lb")
RB == Tok("rb")
Comma == Tok("comma")
Num == Tok("num")
ListVal == Tok("list")

RECURSIVE Joined(_)
Joined(elems) ==
    IF elems = <<>> THEN <<>>
    ELSE IF Len(elems) = 1 THEN <<elems[1]>>
    ELSE <<elems[1], Comma>> \o Joined(Tail(elems))

\* The text of a JSON array holding the given element tokens.
Arr(elems) == <<LB>> \o Joined(elems) \o <<RB>>

\* A fenced code block: ```json <newline> body <newline> ```
Fenced(body) == <<Fence, Word, NL>> \o body \o <<NL, Fence>>

\* A fenced code block without info string: ``` <newline> body <newline> ```
FencedBare(body) == <<Fence, NL>> \o body \o <<NL, Fence>>

\* ------------------------------------------------------------------------
\* json.loads on a token text
\* ------------------------------------------------------------------------
JsonFail == [ok |-> FALSE, nxt |-> 0, val |-> Tok("none"), items |-> <<>>]

RECURSIVE JsonValue(_, _)
RECURSIVE JsonElems(_, _, _, _)
\* One JSON value starting at token i: [ok, nxt, val, items]; for an array,
\* val is ListVal and items are its elements (an element that is itself an
\* array is kept as ListVal).
JsonValue(t, i) ==
    IF i > Len(t) THEN JsonFail
    ELSE IF t[i].k \in {"obj", "num"}
         THEN [ok |-> TRUE, nxt |-> i + 1, val |-> t[i], items |-> <<>>]
    ELSE IF t[i].k = "lb" THEN JsonElems(t, i + 1, <<>>, TRUE)
    ELSE JsonFail

JsonElems(t, i, acc, first) ==
    IF i > Len(t) THEN JsonFail
    ELSE IF first /\ t[i].k = "rb"
         THEN [ok |-> TRUE, nxt |-> i + 1, val |-> ListVal, items |-> acc]
    ELSE LET r == JsonValue(t, i) IN
         IF ~r.ok \/ r.nxt > Len(t) THEN JsonFail
         ELSE IF t[r.nxt].k = "comma"
              THEN JsonElems(t, r.nxt + 1, Append(acc, r.val), FALSE)
         ELSE IF t[r.nxt].k = "rb"
              THEN [ok |-> TRUE, nxt |-> r.nxt + 1, val |-> ListVal,
                    items |-> Append(acc, r.val)]
         ELSE JsonFail

\* Whitespace between JSON tokens is insignificant (this covers .strip()).
NoWhitespace(t) == SelectSeq(t, LAMBDA x : x.k # "nl")

\* json.loads(block): ok is FALSE where Python raises JSONDecodeError.
json_loads(block) ==
    LET t == NoWhitespace(block)
        r == JsonValue(t, 1)
    IN IF r.ok /\ r.nxt = Len(t) + 1 THEN r ELSE JsonFail

\* ------------------------------------------------------------------------
\* GradingWorker._extract_all_json_arrays
\* ------------------------------------------------------------------------
\* str.find of a one-token pattern: the first index >= from, 0 for Python's -1.
RECURSIVE Find(_, _, _)
Find(t, kind, from) ==
    IF from > Len(t) THEN 0
    ELSE IF t[from].k = kind THEN from
    ELSE Find(t, kind, from + 1)

\* The bracket scan reads characters, so it sees the brackets written
\* inside an object too.  An object with brackets is split into the pieces
\* "head", "lbin" and/or "rbin" (its inner brackets) and "tail".
Piece(tok, k) == [tok EXCEPT !.k = k]

ObjChars(tok) ==
    IF tok.k # "obj" \/ tok.br = "" THEN <<tok>>
    ELSE <<Piece(tok, "head")>>
             \o (IF tok.br \in {"[]", "["} THEN <<Piece(tok, "lbin")>> ELSE <<>>)
             \o (IF tok.br \in {"[]", "]"} THEN <<Piece(tok, "rbin")>> ELSE <<>>)
             \o <<Piece(tok, "tail")>>

Chars(t) == Concat([i \in 1..Len(t) |-> ObjChars(t[i])])

\* A slice of the characters read as JSON text again: the pieces of an
\* object that is wholly inside the slice are that object, the pieces of a
\* cut object are no JSON.
RECURSIVE Whole(_)
Whole(c) ==
    IF c = <<>> THEN <<>>
    ELSE IF c[1].k = "head"
    THEN LET n == Len(ObjChars(Piece(c[1], "obj"))) IN
         IF Len(c) >= n /\ c[n].k = "tail"
         THEN <<Piece(c[1], "obj")>> \o Whole(SubSeq(c, n + 1, Len(c)))
         ELSE <<c[1]>> \o Whole(Tail(c))
    ELSE <<c[1]>> \o Whole(Tail(c))

\* The characters '[' and ']' as the bracket scan sees them.
IsOpenBracket(tok) == tok.k \in {"lb", "lbin"}
IsCloseBracket(tok) == tok.k \in {"rb", "rbin"}

\* What one fenced block adds to merged (lines 723-730).
FencedBlockItems(block) ==
    LET r == json_loads(block) IN
    IF ~r.ok THEN <<>>
    ELSE IF r.val.k = "list" THEN r.items
    ELSE IF r.val.k = "obj" THEN <<r.val>>
    ELSE <<>>

\* A fenced pass that stops after its first block.
FencedPassFirstBlockOnly(t, pos, acc) ==
    LET code_start == Find(t, "fence", pos) IN
    IF code_start = 0 THEN acc
    ELSE LET nl == Find(t, "nl", code_start) IN
    IF nl = 0 THEN acc
    ELSE LET content_start == nl + 1
             code_end == Find(t, "fence", content_start) IN
    IF code_end = 0 THEN acc
    ELSE acc \o FencedBlockItems(SubSeq(t, content_start, code_end - 1))

\* The loop over fenced blocks (lines 709-731).
RECURSIVE FencedPass(_, _, _)
FencedPass(t, pos, acc) ==
    LET code_start == Find(t, "fence", pos) IN
    IF code_start = 0 THEN acc
    ELSE LET nl == Find(t, "nl", code_start) IN
    IF nl = 0 THEN acc
    ELSE LET content_start == nl + 1
             code_end == Find(t, "fence", content_start) IN
    IF code_end = 0 THEN acc
    ELSE FencedPass(t, code_end + 1,
                    acc \o FencedBlockItems(SubSeq(t, content_start, code_end - 1)))

\* The inner for loop (lines 743-759): the index of the bracket closing the
\* one at i, 0 when the text ends first.
RECURSIVE MatchClose(_, _, _)
MatchClose(t, j, depth) ==
    IF j > Len(t) THEN 0
    ELSE IF IsOpenBracket(t[j]) THEN MatchClose(t, j + 1, depth + 1)
    ELSE IF IsCloseBracket(t[j])
         THEN IF depth - 1 = 0 THEN j ELSE MatchClose(t, j + 1, depth - 1)
    ELSE MatchClose(t, j + 1, depth)

\* What one bracket span adds to merged (lines 749-755).
BracketSpanItems(candidate) ==
    LET r == json_loads(Whole(candidate)) IN
    IF r.ok /\ r.val.k = "list" /\ r.items # <<>> /\ r.items[1].k = "obj"
    THEN r.items ELSE <<>>

\* The scan for unfenced arrays (lines 738-761).
RECURSIVE BracketPass(_, _, _)
BracketPass(t, i, acc) ==
    IF i > Len(t) THEN acc
    ELSE IF ~IsOpenBracket(t[i]) THEN BracketPass(t, i + 1, acc)
    ELSE LET j == MatchClose(t, i, 0) IN
         IF j = 0 THEN acc
         ELSE BracketPass(t, j + 1, acc \o BracketSpanItems(SubSeq(t, i, j)))

extract_all_json_arrays(t) ==
    LET fenced == FencedPass(t, 1, <<>>) IN
    IF fenced # <<>> THEN fenced ELSE BracketPass(Chars(t), 1, <<>>)

\* ------------------------------------------------------------------------
\* GradingWorker result records
\* ------------------------------------------------------------------------
\* The "error" values (absent key = "").
ErrEmpty == "CLI output is empty"
ErrNoJson == "no JSON result found"
ErrCli == "CLI error (code=1)"
ErrTimeout == "timeout (20 min)"
ErrNotFound == "claude command not found"

\* _create_empty_result: the page number, no "error" key, scores None.
\* (raw_response and the text members are diagnostic copies and left out.)
create_empty_result(page_num) ==
    [page |-> page_num, error |-> "", total_score |-> None]

\* _parse_single_item: total_score = data.get("total_score") or
\* data.get(<legacy key>): a score of 0 is falsy and ends as None.
parse_single_item(data, page_num) ==
    [page |-> page_num, error |-> "",
     total_score |-> IF data.v = 0 THEN None ELSE data.v]

WithError(rs, msg) ==
    [i \in 1..Len(rs) |-> [rs[i] EXCEPT !.error = msg]]

\* {pn: i for i, pn in enumerate(page_numbers)}: the last index wins;
\* 0 when pn is no key.
page_to_index(pns, pn) ==
    LET hits == {i \in 1..Len(pns) : pns[i] = pn} IN
    IF hits = {} THEN 0 ELSE CHOOSE i \in hits : \A j \in hits : j <= i

\* text.strip() is empty
IsBlank(t) == \A i \in 1..Len(t) : t[i].k = "nl"

\* The body of "for item in data" (lines 807-817) for one item:
\* [raised, results].  item.get on a non-dict raises AttributeError; the
\* comparison 1 <= cli_page_num raises TypeError for a str or None page.
PlaceItem(item, res, total_pages, pns) ==
    IF item.k # "obj" THEN [raised |-> TRUE, results |-> res]
    ELSE IF item.pt \in {"str", "null"} THEN [raised |-> TRUE, results |-> res]
    ELSE LET cli_page_num == IF item.pt = "int" THEN item.p ELSE 0
             idx == page_to_index(pns, cli_page_num)
         IN IF idx # 0
            THEN [raised |-> FALSE,
                  results |-> [res EXCEPT ![idx] = parse_single_item(item, cli_page_num)]]
            ELSE IF 1 <= cli_page_num /\ cli_page_num <= total_pages
            THEN LET actual_page ==
                         IF cli_page_num - 1 < Len(pns)
                         THEN pns[cli_page_num] ELSE cli_page_num
                 IN [raised |-> FALSE,
                     results |-> [res EXCEPT ![cli_page_num] =
                                      parse_single_item(item, actual_page)]]
            ELSE [raised |-> FALSE, results |-> res]

RECURSIVE PlaceItems(_, _, _, _)
PlaceItems(data, res, total_pages, pns) ==
    IF data = <<>> THEN [raised |-> FALSE, results |-> res]
    ELSE LET r == PlaceItem(Head(data), res, total_pages, pns) IN
         IF r.raised THEN r
         ELSE PlaceItems(Tail(data), r.results, total_pages, pns)

\* _parse_batch_result(text, total_pages, page_numbers): [raised, results];
\* raised = an exception other than JSONDecodeError/ValueError leaves it.
parse_batch_result(t, total_pages, pns) ==
    LET empty == [i \in 1..total_pages |->
                     create_empty_result(IF i - 1 < Len(pns)
                                       THEN pns[i] ELSE i)]
    IN IF t = <<>> \/ IsBlank(t)
       THEN [raised |-> FALSE, results |-> WithError(empty, ErrEmpty)]
       ELSE LET data == extract_all_json_arrays(t) IN
            IF data = <<>>
            THEN [raised |-> FALSE, results |-> WithError(empty, ErrNoJson)]
            ELSE PlaceItems(data, empty, total_pages, pns)

\* ========================================================================
\* Harness of the pure functions
\* ========================================================================
MaxSegs == 3
MaxItems == 3
MaxExpected == 3

\* A text is a run of segments; the objects of segment s carry the payloads
\* 10*s + 1, 10*s + 2, so every object of a text can be told from the others.
SegObjs(s, n) == [j \in 1..n |-> Obj("int", 10 * s + j, 10 * s + j)]

SegKinds ==
    {"prose", "prose_nl", "cite", "fenced0", "fenced1", "fenced2", "bare1",
     "fenced_prose", "fenced_nums", "array1", "open",
     "array_nested", "array_close", "array_open"}

SegText(kind, s) ==
    CASE kind = "prose" -> <<Word>>
      [] kind = "prose_nl" -> <<Word, NL, Word, NL>>
      [] kind = "cite" -> <<Word, LB, Num, RB>>
      [] kind = "fenced0" -> Fenced(Arr(<<>>))
      [] kind = "fenced1" -> Fenced(Arr(SegObjs(s, 1)))
      [] kind = "fenced2" -> Fenced(Arr(SegObjs(s, 2)))
      [] kind = "bare1" -> FencedBare(Arr(SegObjs(s, 1)))
      [] kind = "fenced_prose" -> Fenced(<<Word>>)
      [] kind = "fenced_nums" -> Fenced(Arr(<<Num>>))
      [] kind = "array1" -> Arr(SegObjs(s, 1))
      [] kind = "open" -> <<LB>>
      [] kind = "array_nested" -> Arr(<<ObjBr("int", 10 * s + 1, 10 * s + 1, "[]")>>)
      [] kind = "array_close" -> Arr(<<ObjBr("int", 10 * s + 1, 10 * s + 1, "]")>>)
      [] kind = "array_open" -> Arr(<<ObjBr("int", 10 * s + 1, 10 * s + 1, "[")>>)

\* The objects a segment holds inside an unfenced JSON array.
SegArrayObjs(kind, s) ==
    IF kind \in {"array1", "array_nested", "array_close", "array_open"}
    THEN <<SegText(kind, s)[2]>> ELSE <<>>

\* The objects a segment holds inside a fenced JSON array.
SegFencedObjs(kind, s) ==
    CASE kind = "fenced1" -> SegObjs(s, 1)
      [] kind = "fenced2" -> SegObjs(s, 2)
      [] kind = "bare1" -> SegObjs(s, 1)
      [] OTHER -> <<>>

SegsText(ss) == Concat([s \in 1..Len(ss) |-> SegText(ss[s], s)])

SegSeqs == UNION {[1..n -> SegKinds] : n \in 0..MaxSegs}

\* The workers at rest, for the harness specifications.
NoCacheFile == [exists |-> FALSE, version |-> 0, pages |-> <<>>]

\* No window or panel in the pure-function and single-worker specifications.
WOff ==
    /\ workers = <<>> /\ gui_queue = <<>>
    /\ mw_is_running = FALSE /\ mw_grading_worker = 0
    /\ ap_is_grading = FALSE /\ ap_ocr_worker = 0 /\ ap_grading_worker = 0
    /\ ap_pending_image_files = "None" /\ handled = {}

SOff ==
    /\ spc = "off" /\ split_list = <<>> /\ split_size = 1
    /\ split_loop = "grading" /\ split_start = 0 /\ batches = <<>>

OOff ==
    /\ ocr_pc = "off" /\ session = 0 /\ gemini_cmd = TRUE /\ cache_path = TRUE
    /\ cache_file = NoCacheFile /\ cached_pages = <<>>
    /\ ocr_images = <<>> /\ ocr_page_numbers = <<>>
    /\ ocr_out = <<>> /\ pending_indices = <<>> /\ all_ocr_texts = <<>>
    /\ ocr_batch_start = 0 /\ ocr_cancelled = FALSE /\ ocr_signals = <<>>
    /\ ocr_finished = <<>> /\ ocr_calls = <<>>

GOff ==
    /\ pc = "off" /\ setup = "ok" /\ image_files = <<>> /\ ocr_results = <<>>
    /\ is_cancelled = FALSE /\ page_numbers = <<>> /\ path = "image"
    /\ valid_pages = <<>> /\ all_results = <<>> /\ batch_start = 0
    /\ raw_output = <<>> /\ parsed = <<>> /\ signals = <<>>
    /\ finished_list = <<>> /\ calls = <<>>

InitExtract ==
    /\ GOff /\ SOff /\ OOff /\ WOff
    /\ upc = "input"
    /\ segs \in SegSeqs
    /\ items = <<>>
    /\ text = SegsText(segs)
    /\ merged = <<>>
    /\ expected = <<>>
    /\ results = [raised |-> FALSE, results |-> <<>>]
    /\ fn_in = <<>> /\ fn_out = <<>>

Extract ==
    /\ upc = "input"
    /\ merged' = extract_all_json_arrays(text)
    /\ upc' = "done"
    /\ UNCHANGED <<segs, items, text, expected, results, fn_in, fn_out,
                   gvars, svars, ovars, wvars>>

NextExtract == Extract

SpecExtract == InitExtract /\ [][NextExtract]_vars

\* ------------------------------------------------------------------------
\* C6  Multi-fragment recovery
\* ------------------------------------------------------------------------
ProseKinds == {"prose", "prose_nl", "cite", "open", "fenced_prose"}
FencedArrayKinds == {"fenced0", "fenced1", "fenced2", "bare1"}

\* The objects of the fenced arrays of a text, fragment by fragment.
FencedObjects(ss) == Concat([s \in 1..Len(ss) |-> SegFencedObjs(ss[s], s)])

FencedArraysWithProse ==
    /\ \A s \in 1..Len(segs) : segs[s] \in ProseKinds \cup FencedArrayKinds
    /\ \E s \in 1..Len(segs) : segs[s] \in FencedArrayKinds

\* C6: for a text made of fenced JSON arrays of objects and prose,
\* _extract_all_json_arrays returns exactly the objects of the fenced arrays
\* (K of them), ordered by fragment and then by position in the fragment.
C6_MultiFragment ==
    (upc = "done" /\ FencedArraysWithProse) => merged = FencedObjects(segs)

\* Two fenced fragments were merged into three objects.
C6_Witness ==
    /\ upc = "done"
    /\ FencedArraysWithProse
    /\ Cardinality({s \in 1..Len(segs) : SegFencedObjs(segs[s], s) # <<>>}) >= 2
    /\ Len(merged) = 3

\* ------------------------------------------------------------------------
\* Harness of _parse_batch_result (reconciliation)
\* ------------------------------------------------------------------------
PagePool == {2, 17, 19, 21}
ItemPages == {1, 2, 17, 19}
ExampleExpected == <<17, 18, 19, 20, 21>>

IsInjective(f) == \A i, j \in DOMAIN f : f[i] = f[j] => i = j

ExpectedLists ==
    {e \in UNION {[1..n -> PagePool] : n \in 1..MaxExpected} : IsInjective(e)}
        \cup {ExampleExpected}

\* Items with an integer page or none; item k carries the payload k.
ItemChoices == {[pt |-> "int", p |-> q] : q \in ItemPages \cup {21}}
                   \cup {[pt |-> "absent", p |-> 0]}

ItemLists ==
    {[k \in 1..Len(c) |-> Obj(c[k].pt, c[k].p, k)] :
        c \in UNION {[1..n -> ItemChoices] : n \in 0..MaxItems}}

InitReconcile ==
    /\ GOff /\ SOff /\ OOff /\ WOff
    /\ upc = "input"
    /\ segs = <<>>
    /\ expected \in ExpectedLists
    /\ items \in ItemLists
    /\ \E fenced \in BOOLEAN :
           text = IF fenced THEN Fenced(Arr(items)) ELSE Arr(items)
    /\ merged = <<>>
    /\ results = [raised |-> FALSE, results |-> <<>>]
    /\ fn_in = <<>> /\ fn_out = <<>>

Reconcile ==
    /\ upc = "input"
    /\ results' = parse_batch_result(text, Len(expected), expected)
    /\ upc' = "done"
    /\ UNCHANGED <<segs, items, text, merged, expected, fn_in, fn_out,
                   gvars, svars, ovars, wvars>>

NextReconcile == Reconcile

SpecReconcile == InitReconcile /\ [][NextReconcile]_vars

\* ------------------------------------------------------------------------
\* C7  Reconciliation by declared page
\* ------------------------------------------------------------------------
\* The items whose declared page is the page of slot i.
MatchingItems(i) ==
    {k \in 1..Len(items) : items[k].pt = "int" /\ items[k].p = expected[i]}

\* The items the positional fallback sends to slot i.
PositionalItems(i) ==
    {k \in 1..Len(items) :
        /\ items[k].pt = "int" /\ items[k].p = i
        /\ page_to_index(expected, items[k].p) = 0}

\* C7: every item whose page is an expected page is found at that page's
\* slot, every slot with no item is an empty result carrying its own page
\* number, and the output has one entry per expected page.
C7_ReconcileByPage ==
    upc = "done" =>
        /\ ~results.raised
        /\ Len(results.results) = Len(expected)
        /\ \A i \in 1..Len(expected) :
               /\ MatchingItems(i) # {} =>
                      \E k \in MatchingItems(i) :
                          results.results[i] = parse_single_item(items[k], expected[i])
               /\ (MatchingItems(i) = {} /\ PositionalItems(i) = {}) =>
                      /\ results.results[i].page = expected[i]
                      /\ results.results[i].total_score = None

\* The part of C7 that the code keeps: length, page numbers of the slots,
\* untouched slots empty, and a slot whose page is declared by some item and
\* that no positional item reaches holds a matching item.
C7_Kept ==
    upc = "done" =>
        /\ ~results.raised
        /\ Len(results.results) = Len(expected)
        /\ \A i \in 1..Len(expected) :
               /\ results.results[i].page = expected[i]
               /\ (MatchingItems(i) # {} /\ PositionalItems(i) = {}) =>
                      \E k \in MatchingItems(i) :
                          results.results[i] = parse_single_item(items[k], expected[i])
               /\ (MatchingItems(i) = {} /\ PositionalItems(i) = {}) =>
                      results.results[i].total_score = None

\* The example of the claim: items for pages 21 and 19 against 17..21.
C7_Example ==
    (upc = "done" /\ expected = ExampleExpected /\ Len(items) = 2
        /\ items[1].p = 21 /\ items[2].p = 19) =>
        /\ results.results[3].total_score = 2
        /\ results.results[5].total_score = 1
        /\ \A i \in {1, 2, 4} : results.results[i] = create_empty_result(expected[i])

\* ========================================================================
\* GradingWorker
\* ========================================================================
BATCH_SIZE == 5
MaxPages == 12
MaxOcrPages == 7

\* The harness at rest, for the worker specifications.
UOff ==
    /\ upc = "off" /\ segs = <<>> /\ items = <<>> /\ text = <<>>
    /\ merged = <<>> /\ expected = <<>>
    /\ results = [raised |-> FALSE, results |-> <<>>]
    /\ fn_in = <<>> /\ fn_out = <<>>

Sig(name, a, b, m) == [sig |-> name, cur |-> a, tot |-> b, msg |-> m]

\* ---- inputs
\* The file names of a run: page_001.. page_n, page_017.., or a list where
\* the second name has no page_<n> part and falls back to its position,
\* which the first image already declares.
\* Lists longer than MaxOcrPages carry the pipeline's names page_001.. only.
ImageLists(n) ==
    IF n > MaxOcrPages THEN { [i \in 1..n |-> i] }
    ELSE { [i \in 1..n |-> i],
           [i \in 1..n |-> 16 + i],
           [i \in 1..n |-> IF i = 1 THEN 2 ELSE IF i = 2 THEN 0 ELSE i] }

\* [_extract_page_number(img.name) or (i + 1) for i, img in enumerate(...)]
page_numbers_of(files) ==
    [i \in 1..Len(files) |-> IF files[i] # 0 THEN files[i] ELSE i]

\* Transcripts as the transcription worker hands them over.
TextValid == "essay"
TextOcrError == "[OCR timeout]"
OcrPatterns == {"valid", "all_error", "first_batch_error", "last_empty", "all_empty"}

OcrText(pattern, i, n) ==
    CASE pattern = "valid" -> TextValid
      [] pattern = "all_error" -> TextOcrError
      [] pattern = "first_batch_error" ->
             IF i <= BATCH_SIZE THEN TextOcrError ELSE TextValid
      [] pattern = "last_empty" -> IF i = n THEN "" ELSE TextValid
      [] pattern = "all_empty" -> ""

OcrResultsFor(files, pattern) ==
    [i \in 1..Len(files) |->
        [page |-> page_numbers_of(files)[i],
         original_text |-> OcrText(pattern, i, Len(files))]]

\* ---- what the external tool may answer for a batch
FullItems(bp) == [i \in 1..Len(bp) |-> Obj("int", bp[i], bp[i])]
NumberedItems(bp) == [i \in 1..Len(bp) |-> Obj("int", i, 50 + i)]

TextEmpty == <<>>
TextBlank == <<NL>>
TextProse == <<Word, NL, Word>>
TextFullFenced(bp) == <<Word, NL>> \o Fenced(Arr(FullItems(bp)))
TextTwoFragments(bp) ==
    Fenced(Arr(SubSeq(FullItems(bp), 1, (Len(bp) + 1) \div 2)))
        \o <<NL, Word, NL>>
        \o Fenced(Arr(SubSeq(FullItems(bp), (Len(bp) + 1) \div 2 + 1, Len(bp))))
TextNumbered(bp) == Arr(NumberedItems(bp))
TextPartialLast(bp) == Arr(<<FullItems(bp)[Len(bp)]>>)
TextNoPage == Arr(<<Obj("absent", 0, 9)>>)
TextStringPage(bp) == Arr(<<Obj("str", bp[1], 9)>>)
TextNumbers == Fenced(Arr(<<Num>>))
\* A fenced array json.loads rejects (trailing comma).
TextBroken(bp) == <<Word, NL>> \o Fenced(<<LB, FullItems(bp)[1], Comma, RB>>)

ToolTexts(bp) ==
    { TextEmpty, TextProse, TextTwoFragments(bp), TextNumbered(bp),
      TextPartialLast(bp), TextNoPage, TextStringPage(bp), TextNumbers,
      TextBroken(bp) }

RetryTexts(bp) ==
    { TextEmpty, TextBlank, TextProse, TextFullFenced(bp), TextNoPage, TextNumbers }

\* subprocess.run: FileNotFoundError, TimeoutExpired, or a completed process.
Pending == [k |-> "pending", rc |-> 0, text |-> <<>>]
FailOutcomes ==
    { [k |-> "notfound", rc |-> 0, text |-> <<>>],
      [k |-> "timeout", rc |-> 0, text |-> <<>>],
      [k |-> "exit", rc |-> 1, text |-> <<>>] }
ToolOutcomes(bp) ==
    FailOutcomes \cup {[k |-> "exit", rc |-> 0, text |-> t] : t \in ToolTexts(bp)}
RetryOutcomes(bp) ==
    FailOutcomes \cup {[k |-> "exit", rc |-> 0, text |-> t] : t \in RetryTexts(bp)}

\* ---- _grade_ocr_batch, lines 298-308
\* ocr_by_page.get(pn, ""): a dict built in list order, the last entry wins.
ocr_by_page(ocr, pn) ==
    LET hits == {i \in 1..Len(ocr) : ocr[i].page = pn} IN
    IF hits = {} THEN ""
    ELSE ocr[CHOOSE i \in hits : \A j \in hits : j <= i].original_text

IsValidTranscript(ocr_text) == ocr_text # "" /\ ~StartsWith(ocr_text, "[OCR")

valid_pages_of(ocr, pns) ==
    LET all == [i \in 1..Len(pns) |->
                   [i |-> i, pn |-> pns[i], ocr_text |-> ocr_by_page(ocr, pns[i])]]
    IN SelectSeq(all, LAMBDA e : IsValidTranscript(e.ocr_text))

\* ---- the batch of the running loop
\* Lines 275-277 and 318-322: batch_end = min(batch_start + BATCH_SIZE, total).
image_batch(s, start, size) == PySlice(s, start, Min(start + size, Len(s)))
\* A slice that runs one element into the next batch.
ocr_batch_overlapping(s, start, size) == PySlice(s, start, start + size + 1)
\* Line 338: valid_pages[batch_start:batch_start + BATCH_SIZE].
ocr_batch(s, start, size) == PySlice(s, start, start + size)
\* range(0, total, BATCH_SIZE): the start after start.
range_next(start, size) == start + size

LoopTotal == IF path = "ocr" THEN Len(valid_pages) ELSE Len(image_files)

\* The page numbers of the current batch.
BatchPages ==
    IF path = "ocr"
    THEN LET b == ocr_batch(valid_pages, batch_start, BATCH_SIZE) IN [k \in 1..Len(b) |-> b[k].pn]
    ELSE image_batch(page_numbers, batch_start, BATCH_SIZE)

\* The input positions of the pages of the current batch.
BatchIndices ==
    IF path = "ocr"
    THEN LET b == ocr_batch(valid_pages, batch_start, BATCH_SIZE) IN [k \in 1..Len(b) |-> b[k].i]
    ELSE image_batch([i \in 1..Len(image_files) |-> i], batch_start, BATCH_SIZE)

\* The transcripts written into the prompt of the current batch.
BatchTranscripts ==
    IF path = "ocr"
    THEN LET b == ocr_batch(valid_pages, batch_start, BATCH_SIZE) IN
         [k \in 1..Len(b) |-> b[k].ocr_text]
    ELSE <<>>

\* ---- _run_cli_and_parse
ErrorResults(bp, msg) ==
    [i \in 1..Len(bp) |-> [page |-> bp[i], error |-> msg, total_score |-> None]]

AllError(rs) == \A i \in 1..Len(rs) : rs[i].error # ""

\* A first call whose timeout is not caught.
first_call_timeout_escapes(out, bp) ==
    IF out.k = "notfound"
    THEN [what |-> "return", results |-> ErrorResults(bp, ErrNotFound)]
    ELSE IF out.k = "timeout"
    THEN [what |-> "raise", results |-> <<>>]
    ELSE IF out.rc # 0
    THEN [what |-> "return", results |-> ErrorResults(bp, ErrCli)]
    ELSE LET r == parse_batch_result(out.text, Len(bp), bp) IN
         IF r.raised THEN [what |-> "raise", results |-> <<>>]
         ELSE IF AllError(r.results) /\ ~IsBlank(out.text)
         THEN [what |-> "retry", results |-> r.results]
         ELSE [what |-> "return", results |-> r.results]

\* Lines 414-475 up to the retry call: what the first call's outcome leads
\* to: [what, results] with what = "return", "retry" or "raise".
first_call(out, bp) ==
    IF out.k = "notfound"
    THEN [what |-> "return", results |-> ErrorResults(bp, ErrNotFound)]
    ELSE IF out.k = "timeout"
    THEN [what |-> "return", results |-> ErrorResults(bp, ErrTimeout)]
    ELSE IF out.rc # 0
    THEN [what |-> "return", results |-> ErrorResults(bp, ErrCli)]
    ELSE LET r == parse_batch_result(out.text, Len(bp), bp) IN
         IF r.raised THEN [what |-> "raise", results |-> <<>>]
         ELSE IF AllError(r.results) /\ ~IsBlank(out.text)
         THEN [what |-> "retry", results |-> r.results]
         ELSE [what |-> "return", results |-> r.results]

\* _retry_json_conversion returns stdout when the call exits 0 with output.
retry_json_conversion(out) ==
    IF out.k = "exit" /\ out.rc = 0 /\ out.text # <<>>
    THEN [some |-> TRUE, text |-> out.text]
    ELSE [some |-> FALSE, text |-> <<>>]

\* Lines 446-450: the parse after the retry call.
retry_call(out, first_parsed, bp) ==
    LET retry_out == retry_json_conversion(out) IN
    IF ~retry_out.some THEN [what |-> "return", results |-> first_parsed]
    ELSE LET r == parse_batch_result(retry_out.text, Len(bp), bp) IN
         IF r.raised THEN [what |-> "raise", results |-> <<>>]
         ELSE [what |-> "return", results |-> r.results]

\* ---- storing the results of a batch
\* A store that forgets the batch offset.
store_ignoring_batch_start(all, start, batch_results) ==
    [i \in 1..Len(all) |->
        IF i <= Len(batch_results) THEN batch_results[i] ELSE all[i]]

\* Lines 288-289 and 325-326: all_results[batch_start + i] = result.
store_by_position(all, start, batch_results) ==
    [i \in 1..Len(all) |->
        IF start < i /\ i <= start + Len(batch_results)
        THEN batch_results[i - start] ELSE all[i]]

\* Lines 370-373: all_results[page_index[pn]] = result, page_index built
\* from page_numbers (the last index of a page number wins).
RECURSIVE store_by_page(_, _, _)
store_by_page(all, pns, batch_results) ==
    IF batch_results = <<>> THEN all
    ELSE LET idx == page_to_index(pns, Head(batch_results).page) IN
         store_by_page(IF idx # 0 THEN [all EXCEPT ![idx] = Head(batch_results)]
                       ELSE all,
                       pns, Tail(batch_results))

Stored(batch_results) ==
    IF path = "ocr" THEN store_by_page(all_results, page_numbers, batch_results)
    ELSE store_by_position(all_results, batch_start, batch_results)

\* ---- actions
Init ==
    /\ UOff /\ SOff /\ OOff /\ WOff
    /\ pc = "start"
    /\ setup \in {"ok", "no_week", "no_prompt"}
    /\ \/ \E n \in 0..MaxPages :
              /\ image_files \in ImageLists(n)
              /\ ocr_results = <<>>
       \/ \E n \in 1..MaxOcrPages : \E pattern \in OcrPatterns :
              /\ image_files \in ImageLists(n)
              /\ ocr_results = OcrResultsFor(image_files, pattern)
    /\ is_cancelled = FALSE
    /\ page_numbers = <<>>
    /\ path = "image"
    /\ valid_pages = <<>>
    /\ all_results = <<>>
    /\ batch_start = 0
    /\ raw_output = <<>>
    /\ parsed = <<>>
    /\ signals = <<>>
    /\ finished_list = <<>>
    /\ calls = <<>>

SetupError ==
    IF setup = "no_week" THEN "no week selected"
    ELSE IF setup = "no_prompt" THEN "prompt file not found"
    ELSE IF image_files = <<>> THEN "no images found"
    ELSE ""

\* run(), lines 188-235, and _grade_batch_with_cli / _grade_ocr_batch up to
\* their loops (lines 258-269, 298-332).
RunSetup ==
    /\ pc = "start"
    /\ IF SetupError # ""
       THEN /\ signals' = Append(signals, Sig("error", 0, 0, SetupError))
            /\ pc' = "done"
            /\ UNCHANGED <<page_numbers, path, valid_pages, all_results>>
       ELSE /\ signals' = Append(signals, Sig("progress", 0, Len(image_files), "grading"))
            /\ IF is_cancelled
               THEN /\ pc' = "done"
                    /\ UNCHANGED <<page_numbers, path, valid_pages, all_results>>
               ELSE LET pns == page_numbers_of(image_files)
                        vp == valid_pages_of(ocr_results, pns)
                    IN /\ pc' = "loop"
                       /\ page_numbers' = pns
                       /\ valid_pages' = IF ocr_results # <<>> THEN vp ELSE <<>>
                       /\ path' = IF ocr_results = <<>> THEN "image"
                                  ELSE IF vp = <<>> THEN "fallback" ELSE "ocr"
                       /\ all_results' = [i \in 1..Len(pns) |-> create_empty_result(pns[i])]
    /\ UNCHANGED <<setup, image_files, ocr_results, is_cancelled, batch_start,
                   raw_output, parsed, finished_list, calls, uvars, svars, ovars,
                   wvars>>

NewCall(kind) ==
    [kind |-> kind, use_read_tool |-> (kind = "grade" /\ path # "ocr"),
     start |-> batch_start, indices |-> BatchIndices, pages |-> BatchPages,
     transcripts |-> BatchTranscripts, out |-> Pending, ret |-> <<>>]

\* A loop head that does not wait for the call in flight to return.
BeginBatchEarly ==
    /\ pc \in {"loop", "invoking"}
    /\ IF batch_start >= LoopTotal \/ is_cancelled
       THEN /\ pc' = "emit"
            /\ UNCHANGED <<signals, calls>>
       ELSE /\ pc' = "invoking"
            /\ signals' = IF path = "fallback" THEN signals
                          ELSE Append(signals, Sig("progress", batch_start, LoopTotal, "grading"))
            /\ calls' = Append(calls, NewCall("grade"))
    /\ UNCHANGED <<setup, image_files, ocr_results, is_cancelled, page_numbers,
                   path, valid_pages, all_results, batch_start, raw_output,
                   parsed, finished_list, uvars, svars, ovars, wvars>>

\* The loop heads (lines 271-286, 315-324, 334-368): leave the loop, or
\* start the call for the next batch.
BeginBatch ==
    /\ pc = "loop"
    /\ IF batch_start >= LoopTotal \/ is_cancelled
       THEN /\ pc' = "emit"
            /\ UNCHANGED <<signals, calls>>
       ELSE /\ pc' = "invoking"
            /\ signals' = IF path = "fallback" THEN signals
                          ELSE Append(signals, Sig("progress", batch_start, LoopTotal, "grading"))
            /\ calls' = Append(calls, NewCall("grade"))
    /\ UNCHANGED <<setup, image_files, ocr_results, is_cancelled, page_numbers,
                   path, valid_pages, all_results, batch_start, raw_output,
                   parsed, finished_list, uvars, svars, ovars, wvars>>

\* The calls history with the outcome of the call in flight, and with the
\* results returned for the batch on the batch's grade call.
Answered(out) == [calls EXCEPT ![Len(calls)].out = out]
Returned(cs, rs) ==
    LET g == CHOOSE k \in 1..Len(cs) :
                 cs[k].kind = "grade" /\ \A j \in k + 1..Len(cs) : cs[j].kind # "grade"
    IN [cs EXCEPT ![g].ret = rs]

\* What follows the end of _run_cli_and_parse for a batch.
Proceed(r, cs) ==
    IF r.what = "raise"
    THEN /\ pc' = "done"
         /\ signals' = Append(signals, Sig("error", 0, 0, "exception"))
         /\ calls' = cs
         /\ UNCHANGED <<all_results, batch_start, raw_output, parsed>>
    ELSE IF r.what = "retry"
    THEN /\ pc' = "retrying"
         /\ raw_output' = cs[Len(cs)].out.text
         /\ parsed' = r.results
         /\ calls' = Append(cs, NewCall("retry"))
         /\ UNCHANGED <<all_results, batch_start, signals>>
    ELSE /\ pc' = "loop"
         /\ all_results' = Stored(r.results)
         /\ batch_start' = range_next(batch_start, BATCH_SIZE)
         /\ raw_output' = <<>>
         /\ parsed' = <<>>
         /\ calls' = Returned(cs, r.results)
         /\ UNCHANGED signals

\* subprocess.run of the batch returns (lines 419-475).
ToolReturns ==
    /\ pc = "invoking"
    /\ \E out \in ToolOutcomes(BatchPages) :
           Proceed(first_call(out, BatchPages), Answered(out))
    /\ UNCHANGED <<setup, image_files, ocr_results, is_cancelled, page_numbers,
                   path, valid_pages, finished_list, uvars, svars, ovars,
                   wvars>>

\* subprocess.run of the reformat call returns (lines 446-454, 628-647).
RetryReturns ==
    /\ pc = "retrying"
    /\ \E out \in RetryOutcomes(BatchPages) :
           Proceed(retry_call(out, parsed, BatchPages), Answered(out))
    /\ UNCHANGED <<setup, image_files, ocr_results, is_cancelled, page_numbers,
                   path, valid_pages, finished_list, uvars, svars, ovars,
                   wvars>>

\* run(), lines 240-245: result_ready per result, then the closing progress.
EmitResults ==
    /\ pc = "emit"
    /\ signals' = signals
           \o [i \in 1..Len(all_results) |-> Sig("result_ready", all_results[i].page, 0, "")]
           \o <<Sig("progress", Len(image_files), Len(image_files), "done")>>
    /\ pc' = "finish"
    /\ UNCHANGED <<setup, image_files, ocr_results, is_cancelled, page_numbers,
                   path, valid_pages, all_results, batch_start, raw_output,
                   parsed, finished_list, calls, uvars, svars, ovars, wvars>>

\* run(), lines 247-248.
Finish ==
    /\ pc = "finish"
    /\ IF is_cancelled
       THEN UNCHANGED <<signals, finished_list>>
       ELSE /\ signals' = Append(signals, Sig("finished", 0, 0, ""))
            /\ finished_list' = all_results
    /\ pc' = "done"
    /\ UNCHANGED <<setup, image_files, ocr_results, is_cancelled, page_numbers,
                   path, valid_pages, all_results, batch_start, raw_output,
                   parsed, calls, uvars, svars, ovars, wvars>>

\* cancel(), called from the GUI thread at any moment of the run.
Cancel ==
    /\ pc \notin {"done", "off"}
    /\ ~is_cancelled
    /\ is_cancelled' = TRUE
    /\ UNCHANGED <<pc, setup, image_files, ocr_results, page_numbers, path,
                   valid_pages, all_results, batch_start, raw_output, parsed,
                   signals, finished_list, calls, uvars, svars, ovars, wvars>>

Next ==
    \/ RunSetup
    \/ BeginBatch
    \/ ToolReturns
    \/ RetryReturns
    \/ EmitResults
    \/ Finish
    \/ Cancel

Spec == Init /\ [][Next]_vars

\* ========================================================================
\* Claims about GradingWorker
\* ========================================================================
Emitted(name) == \E k \in 1..Len(signals) : signals[k].sig = name

\* The grade calls of the history (one per batch started).
GradeCalls == {k \in 1..Len(calls) : calls[k].kind = "grade"}

\* The reformat calls issued for the batch of grade call g.
RetriesOf(g) ==
    {k \in g + 1..Len(calls) :
        /\ calls[k].kind = "retry"
        /\ \A j \in g + 1..k : calls[j].kind = "retry"}

\* The batch of grade call g is over and its results were returned.
Completed(g) == calls[g].ret # <<>>

\* The text the results of grade call g were last parsed from.
FinalText(g) ==
    IF \E k \in RetriesOf(g) : retry_json_conversion(calls[k].out).some
    THEN calls[CHOOSE k \in RetriesOf(g) : retry_json_conversion(calls[k].out).some].out.text
    ELSE calls[g].out.text

\* Some answer of the tool made the parser raise.
ParserRaised ==
    \E k \in 1..Len(calls) :
        /\ calls[k].out.k = "exit" /\ calls[k].out.rc = 0
        /\ (calls[k].kind = "retry" => calls[k].out.text # <<>>)
        /\ parse_batch_result(calls[k].out.text, Len(calls[k].pages), calls[k].pages).raised

\* ------------------------------------------------------------------------
\* C1  Completeness
\* ------------------------------------------------------------------------
\* C1: a run that passes setup and is not cancelled ends with finished
\* carrying one result per input image, the i-th with the page number of
\* the i-th image, whatever the tool answered.
C1_Completeness ==
    (pc = "done" /\ SetupError = "" /\ ~is_cancelled) =>
        /\ Emitted("finished")
        /\ Len(finished_list) = Len(image_files)
        /\ \A i \in 1..Len(image_files) :
               finished_list[i].page = page_numbers_of(image_files)[i]

\* ------------------------------------------------------------------------
\* C2  Tool failures never abort the run
\* ------------------------------------------------------------------------
\* The batch of grade call g ended with tool-not-found, timeout, non-zero
\* exit, empty output or no JSON found.
EndsWithListedFailure(g) ==
    \/ calls[g].out.k \in {"notfound", "timeout"}
    \/ calls[g].out.k = "exit" /\ calls[g].out.rc # 0
    \/ /\ calls[g].out.k = "exit" /\ calls[g].out.rc = 0
       /\ \/ IsBlank(FinalText(g))
          \/ extract_all_json_arrays(FinalText(g)) = <<>>

\* The slot of all_results that the k-th result of grade call g went to.
SlotOf(g, k) ==
    IF path = "ocr" THEN page_to_index(page_numbers, calls[g].ret[k].page)
    ELSE calls[g].start + k

\* C2: a batch that ends with one of the listed tool failures has the
\* failure in the error field of each of its results, the loop goes on with
\* the next batch, and the error signal is emitted only when the parser
\* raised on an answer (never by a listed failure): a run whose answers all
\* parse or fail in a listed way ends with finished.
C2_FailuresDoNotAbort ==
    /\ \A g \in GradeCalls :
           (Completed(g) /\ EndsWithListedFailure(g)) =>
               /\ \A k \in 1..Len(calls[g].ret) :
                      /\ calls[g].ret[k].error # ""
                      /\ all_results[SlotOf(g, k)].error # ""
               /\ (pc \in {"emit", "finish", "done"} /\ ~is_cancelled
                       /\ calls[g].start + BATCH_SIZE < LoopTotal) =>
                      \E h \in GradeCalls : calls[h].start = calls[g].start + BATCH_SIZE
    /\ (pc \in {"invoking", "retrying"} /\ Len(calls) > 0) =>
           ~Completed(CHOOSE g \in GradeCalls : \A h \in GradeCalls : h <= g)
    /\ (SetupError = "" /\ Emitted("error")) => ParserRaised
    /\ (pc = "done" /\ SetupError = "" /\ ~is_cancelled /\ ~ParserRaised) =>
           (Emitted("finished") /\ ~Emitted("error"))

\* A run ended with finished although one batch timed out, a later one
\* found no tool and a third one gave no JSON.
C2_Witness ==
    /\ pc = "done" /\ Emitted("finished") /\ ~Emitted("error")
    /\ \E g1, g2, g3 \in GradeCalls :
           /\ g1 < g2 /\ g2 < g3
           /\ calls[g1].out.k = "timeout"
           /\ calls[g2].out.k = "notfound"
           /\ calls[g3].out.k = "exit" /\ calls[g3].out.rc = 0
           /\ EndsWithListedFailure(g3)
           /\ \A k \in 1..Len(calls[g3].ret) : calls[g3].ret[k].error = ErrNoJson

\* ------------------------------------------------------------------------
\* C3  Batch failure isolation (12 pages, second batch exits non-zero)
\* ------------------------------------------------------------------------
OnlySecondBatchFails ==
    /\ path = "image"
    /\ Len(image_files) = 12
    /\ Cardinality(GradeCalls) = 3
    /\ \A g \in GradeCalls :
           /\ calls[g].out.k = "exit"
           /\ (calls[g].out.rc # 0) <=> (calls[g].start = BATCH_SIZE)

\* C3: with 12 pages the image loop issues batches of 5, 5 and 2 pages; when
\* only the second call exits non-zero (and the answers of the others
\* parse), the final list has 12 entries, exactly entries 6-10 carry the
\* CLI error, and every other entry is the result returned for its own batch.
C3_BatchIsolation ==
    /\ (path = "image" /\ Len(image_files) = 12) =>
           \A g \in GradeCalls :
               /\ calls[g].start \in {0, 5, 10}
               /\ Len(calls[g].pages) = IF calls[g].start = 10 THEN 2 ELSE 5
    /\ (pc = "done" /\ ~is_cancelled /\ ~ParserRaised /\ OnlySecondBatchFails) =>
           /\ Emitted("finished")
           /\ Len(finished_list) = 12
           /\ \A i \in 1..12 :
                  (finished_list[i].error = ErrCli) <=> (i \in 6..10)
           /\ \A g \in GradeCalls : \A k \in 1..Len(calls[g].pages) :
                  finished_list[calls[g].start + k] = calls[g].ret[k]

\* The scenario ran: entries 1-5 and 11-12 are populated from their batches.
C3_Witness ==
    /\ pc = "done" /\ ~is_cancelled /\ OnlySecondBatchFails
    /\ Len(finished_list) = 12
    /\ \A i \in (1..5) \cup (11..12) : finished_list[i].total_score # None
    /\ \A i \in 6..10 : finished_list[i].error = ErrCli

\* ------------------------------------------------------------------------
\* C8  Retry bound
\* ------------------------------------------------------------------------
\* The reformat call of grade call g failed or its output filled no slot.
RetryUnusable(g) ==
    \E k \in RetriesOf(g) :
        /\ calls[k].out.k # "pending"
        /\ LET ro == retry_json_conversion(calls[k].out) IN
           \/ ~ro.some
           \/ LET r == parse_batch_result(ro.text, Len(calls[g].pages), calls[g].pages)
              IN ~r.raised /\ \A i \in 1..Len(r.results) : r.results[i].total_score = None

\* At most one reformat call, so at most two invocations, per batch.
RetryBound == \A g \in GradeCalls : Cardinality(RetriesOf(g)) <= 1

\* C8: a batch causes at most one reformat call; when the reformat output
\* is unusable too, or the reformat call fails, the batch is given up with
\* an error on every page of the batch.
C8_RetryBound ==
    /\ RetryBound
    /\ \A g \in GradeCalls :
           (Completed(g) /\ RetryUnusable(g)) =>
               \A k \in 1..Len(calls[g].ret) : calls[g].ret[k].error # ""

\* ------------------------------------------------------------------------
\* C9  Transcription-failure fallback
\* ------------------------------------------------------------------------
\* The input positions of the b-th batch of BATCH_SIZE pages.
Block(b) == {i \in 1..Len(image_files) : (i - 1) \div BATCH_SIZE = b}
Blocks == {b \in 0..(Len(image_files) \div BATCH_SIZE) : Block(b) # {}}

TranscriptOf(i) == ocr_by_page(ocr_results, page_numbers_of(image_files)[i])

Range(f) == {f[x] : x \in DOMAIN f}

GradedFromImages(b) ==
    \E g \in GradeCalls :
        calls[g].use_read_tool /\ Block(b) \subseteq Range(calls[g].indices)

NoFailedTranscriptInPrompt ==
    \A k \in 1..Len(calls) : \A j \in 1..Len(calls[k].transcripts) :
        IsValidTranscript(calls[k].transcripts[j])

\* C9: when a run with transcripts has gone through all its batches, every
\* batch whose transcripts are all error-tagged or empty was graded from its
\* images, and no prompt held an error-tagged transcript.
C9_FallbackPerBatch ==
    /\ NoFailedTranscriptInPrompt
    /\ (pc = "done" /\ ocr_results # <<>> /\ SetupError = "" /\ ~is_cancelled
            /\ ~ParserRaised) =>
           \A b \in Blocks :
               (\A i \in Block(b) : ~IsValidTranscript(TranscriptOf(i))) =>
                   GradedFromImages(b)

\* ========================================================================
\* The batch loops
\* ========================================================================
\* Both loops are "for batch_start in range(0, len(list), size)" around a
\* slice of the list: grading_worker.py 271-277 (and 318-322, 334-338) and
\* ocr_worker.py 131-135.
MaxSplitLen == 6
MaxSplitSize == 3

\* Lists of pages; a page number may occur twice.
RECURSIVE SeqsUpTo(_, _)
SeqsUpTo(S, n) ==
    IF n = 0 THEN {<<>>}
    ELSE LET shorter == SeqsUpTo(S, n - 1) IN
         shorter \cup {Append(q, x) : q \in {r \in shorter : Len(r) = n - 1}, x \in S}

InitSplit ==
    /\ UOff /\ GOff /\ OOff /\ WOff
    /\ spc = "loop"
    /\ split_list \in SeqsUpTo({1, 2}, MaxSplitLen)
    /\ split_size \in 1..MaxSplitSize
    /\ split_loop \in {"grading", "transcription"}
    /\ split_start = 0
    /\ batches = <<>>

\* One pass of the loop body: the slice of the batch.
FormBatch ==
    /\ spc = "loop"
    /\ split_start < Len(split_list)
    /\ batches' = Append(batches,
                         IF split_loop = "grading"
                         THEN image_batch(split_list, split_start, split_size)
                         ELSE ocr_batch(split_list, split_start, split_size))
    /\ split_start' = range_next(split_start, split_size)
    /\ UNCHANGED <<spc, split_list, split_size, split_loop, uvars, gvars, ovars,
                   wvars>>

\* range() is exhausted.
LoopEnds ==
    /\ spc = "loop"
    /\ split_start >= Len(split_list)
    /\ spc' = "done"
    /\ UNCHANGED <<split_list, split_size, split_loop, split_start, batches,
                   uvars, gvars, ovars, wvars>>

NextSplit == FormBatch \/ LoopEnds

SpecSplit == InitSplit /\ [][NextSplit]_vars

\* ------------------------------------------------------------------------
\* C10  Batch splitting
\* ------------------------------------------------------------------------
\* C10: the batches formed by the loops are non-empty, each holds at most
\* the batch size, only the last holds fewer, their concatenation is the
\* part of the list walked so far and, when the loop is over, the whole
\* list; an empty list yields no batch.
C10_BatchSplitting ==
    /\ \A b \in 1..Len(batches) :
           /\ batches[b] # <<>>
           /\ Len(batches[b]) <= split_size
           /\ Len(batches[b]) < split_size =>
                  (b = Len(batches) /\ split_start >= Len(split_list))
    /\ Concat(batches) = SubSeq(split_list, 1, Min(split_start, Len(split_list)))
    /\ spc = "done" =>
           /\ Concat(batches) = split_list
           /\ split_list = <<>> => batches = <<>>

\* A loop ended after three batches, the last one shorter than the others.
C10_Witness ==
    /\ spc = "done" /\ Len(batches) = 3
    /\ Len(batches[3]) < split_size
    /\ Len(batches[1]) = split_size
    /\ split_loop = "transcription"

\* ========================================================================
\* OcrWorker (app/workers/ocr_worker.py)
\* ========================================================================
\* BATCH_SIZE of ocr_worker.py.
OCR_BATCH_SIZE == 5

\* ---- transcripts
\* The "text" member of an item of the tool's answer is the v of its token:
\* 0 for no "text" member, NullText for JSON null, otherwise the number of
\* the essay that was read.
NullText == 91
PyNone == "<None>"
Transcript(h) == "essay " \o ToString(h)
item_text(tok) ==
    IF tok.v = 0 THEN ""
    ELSE IF tok.v = NullText THEN PyNone
    ELSE Transcript(tok.v)

\* item.get("page", 0): a page that is no integer equals no page number, as
\* 0 does (page numbers are at least 1).
item_page(tok) == IF tok.pt = "int" THEN tok.p ELSE 0

OcrErrCli == "[OCR error: CLI code=1]"
OcrErrTimeout == "[OCR timeout]"
OcrErrException == "[OCR error: exception]"
OcrErrNoJson == "[OCR error: no JSON found]"
OcrErrNotArray == "[OCR error: not a JSON array]"
OcrErrParse == "[OCR error: JSON parse failed]"

\* ---- _fallback_empty, lines 296-303
fallback_empty(bp, error_text) ==
    [pn \in {bp[k] : k \in 1..Len(bp)} |-> error_text]

\* ---- _parse_batch_ocr_result, lines 246-294
\* str.rfind of a one-token pattern: the last index, 0 for Python's -1.
RFind(t, kind) ==
    LET hits == {i \in 1..Len(t) : t[i].k = kind} IN
    IF hits = {} THEN 0 ELSE CHOOSE i \in hits : \A j \in hits : j <= i

\* text.find("```json"): a word directly after a fence is the info string.
FindFenceJson(t) ==
    LET hits == {i \in 1..Len(t) - 1 : t[i].k = "fence" /\ t[i + 1].k = "word"} IN
    IF hits = {} THEN 0 ELSE CHOOSE i \in hits : \A j \in hits : i <= j

\* text[json_start:json_end] with json_end = text.find("```", json_start):
\* when no fence follows, json_end is -1 and the slice drops the last token.
UpToFence(t, from) ==
    LET json_end == Find(t, "fence", from) IN
    IF json_end = 0 THEN SubSeq(t, from, Len(t) - 1)
    ELSE SubSeq(t, from, json_end - 1)

\* text[text.find("["):text.rfind("]") + 1]
FirstToLastBracket(t) ==
    LET a == Find(t, "lb", 1)
        b == RFind(t, "rb")
    IN IF b = 0 THEN <<>> ELSE SubSeq(t, a, b)

\* Lines 252-267: the text handed to json.loads ("none": no JSON detected).
ocr_json_text(t) ==
    IF FindFenceJson(t) # 0
    THEN [found |-> TRUE, text |-> UpToFence(t, FindFenceJson(t) + 2)]
    ELSE IF Find(t, "fence", 1) # 0 /\ Find(t, "lb", 1) # 0
    THEN [found |-> TRUE, text |-> UpToFence(t, Find(t, "fence", 1) + 1)]
    ELSE IF Find(t, "lb", 1) # 0
    THEN [found |-> TRUE, text |-> FirstToLastBracket(t)]
    ELSE [found |-> FALSE, text |-> <<>>]

\* Lines 269-279: json.loads with the second try on the whole text.
ocr_json_data(t, json_text) ==
    LET r == json_loads(json_text) IN
    IF r.ok THEN r
    ELSE IF Find(t, "lb", 1) # 0 /\ RFind(t, "rb") # 0
         THEN json_loads(FirstToLastBracket(t))
    ELSE JsonFail

\* Lines 286-289: {item.get("page", 0): item.get("text", "")}, a later item
\* replaces an earlier one with the same key.
texts_by_page(data) ==
    [pn \in {item_page(data[k]) : k \in 1..Len(data)} |->
        LET hits == {k \in 1..Len(data) : item_page(data[k]) = pn} IN
        item_text(data[CHOOSE k \in hits : \A j \in hits : j <= k])]

\* [raised, texts]: raised where item.get fails on an item that is no object.
parse_batch_ocr_result(t, bp) ==
    LET jt == ocr_json_text(t) IN
    IF ~jt.found
    THEN [raised |-> FALSE, texts |-> fallback_empty(bp, OcrErrNoJson)]
    ELSE LET r == ocr_json_data(t, jt.text) IN
         IF ~r.ok
         THEN [raised |-> FALSE, texts |-> fallback_empty(bp, OcrErrParse)]
         ELSE IF r.val.k # "list"
         THEN [raised |-> FALSE, texts |-> fallback_empty(bp, OcrErrNotArray)]
         ELSE IF \E k \in 1..Len(r.items) : r.items[k].k # "obj"
         THEN [raised |-> TRUE, texts |-> <<>>]
         ELSE [raised |-> FALSE, texts |-> texts_by_page(r.items)]

\* ---- _ocr_single_batch, lines 202-244
ocr_single_batch(out, bp) ==
    IF out.k = "timeout" THEN fallback_empty(bp, OcrErrTimeout)
    ELSE IF out.k = "notfound" THEN fallback_empty(bp, OcrErrException)
    ELSE IF out.rc # 0 THEN fallback_empty(bp, OcrErrCli)
    ELSE LET r == parse_batch_ocr_result(out.text, bp) IN
         IF r.raised THEN fallback_empty(bp, OcrErrException) ELSE r.texts

\* ---- the cache
\* Lines 92-95: the entries of a version 1 file.
load_cached_pages(file) ==
    IF file.exists /\ file.version = 1 THEN file.pages ELSE <<>>

\* A lookup keyed by the page number of the file name.
cache_lookup_by_page(cp, img) ==
    LET hits == {k \in 1..Len(cp) : cp[k].page = img.no} IN
    IF hits = {} THEN [hit |-> FALSE, original_text |-> ""]
    ELSE [hit |-> TRUE,
          original_text |-> cp[CHOOSE k \in hits : \A j \in hits : j <= k].original_text]

\* cached_pages[image_hash]: a later entry of the file replaces an earlier.
cache_lookup(cp, img) ==
    LET hits == {k \in 1..Len(cp) : cp[k].image_hash = img.hash} IN
    IF hits = {} THEN [hit |-> FALSE, original_text |-> ""]
    ELSE [hit |-> TRUE,
          original_text |-> cp[CHOOSE k \in hits : \A j \in hits : j <= k].original_text]

\* A different save filter: nothing is held back.
cacheable_unfiltered(rs) == rs

\* Lines 158-161: the results that go to the cache file.
cacheable(rs) ==
    SelectSeq(rs, LAMBDA r : ~StartsWith(r.original_text, "[OCR"))

\* _save_ocr_cache, lines 38-47.
save_ocr_cache(pages) == [exists |-> TRUE, version |-> 1, pages |-> pages]
\* ---- inputs
MaxSessions == 3
MaxOcrImages == 6

\* The images of a run, each [no, hash]: two pages; the same scans renamed
\* and joined by a third; two names that declare the same page number; a
\* list of two batches; no image.
OcrImageSets ==
    { <<>>,
      <<[no |-> 1, hash |-> 1], [no |-> 2, hash |-> 2]>>,
      <<[no |-> 5, hash |-> 2], [no |-> 6, hash |-> 1], [no |-> 7, hash |-> 3]>>,
      <<[no |-> 2, hash |-> 1], [no |-> 0, hash |-> 4]>>,
      [i \in 1..MaxOcrImages |-> [no |-> i, hash |-> i]] }

\* <<the tool is installed, the data directory is known>>
OcrEnvironments == {<<TRUE, TRUE>>, <<TRUE, FALSE>>, <<FALSE, TRUE>>}

\* The answers of the transcription tool for a batch with page numbers bp
\* and digests bh; stray is a page number of the run.
OcrItems(bp, bh) == [i \in 1..Len(bp) |-> Obj("int", bp[i], bh[i])]

OcrTextFenced(bp, bh) == <<Word, NL>> \o Fenced(Arr(OcrItems(bp, bh)))
OcrTextPlain(bp, bh) == <<Word, NL>> \o Arr(OcrItems(bp, bh)) \o <<NL, Word>>
OcrTextTwoFragments(bp, bh) ==
    Fenced(Arr(SubSeq(OcrItems(bp, bh), 1, (Len(bp) + 1) \div 2)))
        \o <<NL, Word, NL>>
        \o Fenced(Arr(SubSeq(OcrItems(bp, bh), (Len(bp) + 1) \div 2 + 1, Len(bp))))
OcrTextPartial(bp, bh) == Fenced(Arr(SubSeq(OcrItems(bp, bh), 1, Len(bp) - 1)))
OcrTextUnclosed(bp, bh) == <<Fence, Word, NL>> \o Arr(OcrItems(bp, bh))
OcrTextObject(bp, bh) == FencedBare(<<OcrItems(bp, bh)[1]>>)
OcrTextNullText(bp) == Arr(<<Obj("int", bp[1], NullText)>>)
OcrTextStray(bp, bh, stray) ==
    Arr(Append(OcrItems(bp, bh), Obj("int", stray, 9)))

OcrTexts(bp, bh, stray) ==
    { TextEmpty, TextProse, TextNumbers,
      OcrTextFenced(bp, bh), OcrTextPlain(bp, bh), OcrTextTwoFragments(bp, bh),
      OcrTextPartial(bp, bh), OcrTextUnclosed(bp, bh), OcrTextObject(bp, bh),
      OcrTextNullText(bp), OcrTextStray(bp, bh, stray) }

OcrOutcomes(bp, bh, stray) ==
    FailOutcomes \cup {[k |-> "exit", rc |-> 0, text |-> t] : t \in OcrTexts(bp, bh, stray)}

\* ---- OcrWorker.run
\* results[i] = None
NoResult == [page |-> 0, original_text |-> "", image_hash |-> 0]

ocr_page_numbers_of(imgs) ==
    [i \in 1..Len(imgs) |-> IF imgs[i].no # 0 THEN imgs[i].no ELSE i]

\* Lines 98-111: the results of the cache hits, None for the others.
hit_results(imgs, pns, cp) ==
    [i \in 1..Len(imgs) |->
        LET c == cache_lookup(cp, imgs[i]) IN
        IF c.hit
        THEN [page |-> pns[i], original_text |-> c.original_text,
              image_hash |-> imgs[i].hash]
        ELSE NoResult]

pending_of(imgs, cp) ==
    SelectSeq([i \in 1..Len(imgs) |-> i], LAMBDA i : ~cache_lookup(cp, imgs[i]).hit)

\* Lines 148-154: the results of the pending images.
merge_results(rs, pend, imgs, pns, texts) ==
    [i \in 1..Len(rs) |->
        IF \E j \in 1..Len(pend) : pend[j] = i
        THEN [page |-> pns[i],
              original_text |-> IF pns[i] \in DOMAIN texts THEN texts[pns[i]] ELSE "",
              image_hash |-> imgs[i].hash]
        ELSE rs[i]]

OcrBatchIndices == ocr_batch(pending_indices, ocr_batch_start, OCR_BATCH_SIZE)
OcrBatchPages == [k \in 1..Len(OcrBatchIndices) |-> ocr_page_numbers[OcrBatchIndices[k]]]
OcrBatchHashes == [k \in 1..Len(OcrBatchIndices) |-> ocr_images[OcrBatchIndices[k]].hash]

OcrRunStarts(n) ==
    /\ ocr_pc = "start"
    /\ session = n
    /\ ocr_images \in OcrImageSets
    /\ \E c \in OcrEnvironments : gemini_cmd = c[1] /\ cache_path = c[2]
    /\ cached_pages = <<>> /\ ocr_page_numbers = <<>> /\ ocr_out = <<>>
    /\ pending_indices = <<>> /\ all_ocr_texts = <<>> /\ ocr_batch_start = 0
    /\ ocr_cancelled = FALSE /\ ocr_signals = <<>> /\ ocr_finished = <<>>
    /\ ocr_calls = <<>>

InitOcr ==
    /\ UOff /\ GOff /\ SOff /\ WOff
    /\ cache_file = NoCacheFile
    /\ OcrRunStarts(1)

\* Lines 70-123: up to the first batch.
OcrSetup ==
    /\ ocr_pc = "start"
    /\ IF ~gemini_cmd
       THEN /\ ocr_signals' = Append(ocr_signals, Sig("error", 0, 0, "gemini not found"))
            /\ ocr_pc' = "done"
            /\ UNCHANGED <<cached_pages, ocr_page_numbers, ocr_out, pending_indices,
                           ocr_finished>>
       ELSE IF Len(ocr_images) = 0
       THEN /\ ocr_signals' = Append(ocr_signals, Sig("finished", 0, 0, ""))
            /\ ocr_pc' = "done"
            /\ UNCHANGED <<cached_pages, ocr_page_numbers, ocr_out, pending_indices,
                           ocr_finished>>
       ELSE LET pns == ocr_page_numbers_of(ocr_images)
                cp == IF cache_path THEN load_cached_pages(cache_file) ELSE <<>>
                rs == hit_results(ocr_images, pns, cp)
                pend == pending_of(ocr_images, cp)
                total == Len(ocr_images)
            IN /\ ocr_page_numbers' = pns
               /\ cached_pages' = cp
               /\ ocr_out' = rs
               /\ pending_indices' = pend
               /\ IF pend = <<>>
                  THEN /\ ocr_pc' = "done"
                       /\ IF ocr_cancelled
                          THEN /\ ocr_signals' = Append(ocr_signals,
                                      Sig("progress", total, total, "cached"))
                               /\ UNCHANGED ocr_finished
                          ELSE /\ ocr_signals' = ocr_signals \o
                                      <<Sig("progress", total, total, "cached"),
                                        Sig("finished", 0, 0, "")>>
                               /\ ocr_finished' = rs
                  ELSE /\ ocr_pc' = IF ocr_cancelled THEN "done" ELSE "loop"
                       /\ UNCHANGED <<ocr_signals, ocr_finished>>
    /\ UNCHANGED <<session, gemini_cmd, cache_path, cache_file, ocr_images,
                   all_ocr_texts, ocr_batch_start, ocr_cancelled, ocr_calls,
                   uvars, gvars, svars, wvars>>

\* Lines 131-144: the head of the loop and the call of the tool.
OcrBeginBatch ==
    /\ ocr_pc = "loop"
    /\ ocr_batch_start < Len(pending_indices)
    /\ IF ocr_cancelled
       THEN /\ ocr_pc' = "done"
            /\ UNCHANGED <<ocr_signals, ocr_calls>>
       ELSE /\ ocr_pc' = "invoking"
            /\ ocr_signals' = Append(ocr_signals,
                   Sig("progress",
                       Len(ocr_images) - Len(pending_indices) + ocr_batch_start,
                       Len(ocr_images), "transcribing"))
            /\ ocr_calls' = Append(ocr_calls,
                   [start |-> ocr_batch_start, indices |-> OcrBatchIndices,
                    pages |-> OcrBatchPages, hashes |-> OcrBatchHashes,
                    out |-> Pending])
    /\ UNCHANGED <<session, gemini_cmd, cache_path, cache_file, cached_pages,
                   ocr_images, ocr_page_numbers, ocr_out, pending_indices,
                   all_ocr_texts, ocr_batch_start, ocr_cancelled, ocr_finished,
                   uvars, gvars, svars, wvars>>

\* Lines 144-145: the tool answers, all_ocr_texts.update(batch_texts).
OcrToolReturns ==
    /\ ocr_pc = "invoking"
    /\ \E out \in OcrOutcomes(OcrBatchPages, OcrBatchHashes,
                              ocr_page_numbers[pending_indices[1]]) :
           /\ all_ocr_texts' = ocr_single_batch(out, OcrBatchPages) @@ all_ocr_texts
           /\ ocr_calls' = [ocr_calls EXCEPT ![Len(ocr_calls)].out = out]
    /\ ocr_batch_start' = range_next(ocr_batch_start, OCR_BATCH_SIZE)
    /\ ocr_pc' = "loop"
    /\ UNCHANGED <<session, gemini_cmd, cache_path, cache_file, cached_pages,
                   ocr_images, ocr_page_numbers, ocr_out, pending_indices,
                   ocr_cancelled, ocr_signals, ocr_finished, uvars, gvars, svars,
                   wvars>>

\* Lines 147-171: merge, save the cache, report.
OcrFinish ==
    /\ ocr_pc = "loop"
    /\ ocr_batch_start >= Len(pending_indices)
    /\ ocr_pc' = "done"
    /\ LET rs == merge_results(ocr_out, pending_indices, ocr_images,
                               ocr_page_numbers, all_ocr_texts)
           total == Len(ocr_images)
       IN /\ ocr_out' = rs
          /\ IF cache_path /\ \E i \in 1..Len(rs) : rs[i].original_text = PyNone
             THEN \* None.startswith raises; run() reports the exception
                  /\ ocr_signals' = Append(ocr_signals, Sig("error", 0, 0, "exception"))
                  /\ UNCHANGED <<cache_file, ocr_finished>>
             ELSE /\ cache_file' =
                        IF cache_path /\ cacheable(rs) # <<>>
                        THEN save_ocr_cache(cacheable(rs)) ELSE cache_file
                  /\ IF ocr_cancelled
                     THEN /\ ocr_signals' = Append(ocr_signals,
                                 Sig("progress", total, total, "done"))
                          /\ UNCHANGED ocr_finished
                     ELSE /\ ocr_signals' = ocr_signals \o
                                 <<Sig("progress", total, total, "done"),
                                   Sig("finished", 0, 0, "")>>
                          /\ ocr_finished' = rs
    /\ UNCHANGED <<session, gemini_cmd, cache_path, cached_pages, ocr_images,
                   ocr_page_numbers, pending_indices, all_ocr_texts,
                   ocr_batch_start, ocr_cancelled, ocr_calls, uvars, gvars, svars,
                   wvars>>

\* cancel(), lines 313-315, from the GUI thread.
OcrCancel ==
    /\ ocr_pc \in {"start", "loop", "invoking"}
    /\ ~ocr_cancelled
    /\ ocr_cancelled' = TRUE
    /\ UNCHANGED <<ocr_pc, session, gemini_cmd, cache_path, cache_file,
                   cached_pages, ocr_images, ocr_page_numbers, ocr_out,
                   pending_indices, all_ocr_texts, ocr_batch_start, ocr_signals,
                   ocr_finished, ocr_calls, uvars, gvars, svars, wvars>>

\* A later run: a new OcrWorker over the cache file the earlier runs left.
OcrNextRun ==
    /\ ocr_pc = "done"
    /\ session < MaxSessions
    /\ ocr_pc' = "start"
    /\ session' = session + 1
    /\ ocr_images' \in OcrImageSets
    /\ \E c \in OcrEnvironments : gemini_cmd' = c[1] /\ cache_path' = c[2]
    /\ cached_pages' = <<>> /\ ocr_page_numbers' = <<>> /\ ocr_out' = <<>>
    /\ pending_indices' = <<>> /\ all_ocr_texts' = <<>> /\ ocr_batch_start' = 0
    /\ ocr_cancelled' = FALSE /\ ocr_signals' = <<>> /\ ocr_finished' = <<>>
    /\ ocr_calls' = <<>>
    /\ UNCHANGED <<cache_file, uvars, gvars, svars, wvars>>

NextOcr ==
    \/ OcrSetup
    \/ OcrBeginBatch
    \/ OcrToolReturns
    \/ OcrFinish
    \/ OcrCancel
    \/ OcrNextRun

SpecOcr == InitOcr /\ [][NextOcr]_vars
\* ------------------------------------------------------------------------
\* C4  Cache purity
\* ------------------------------------------------------------------------
HasErrorMarker(ocr_text) == StartsWith(ocr_text, "[OCR")

OcrEmitted(name) == \E k \in 1..Len(ocr_signals) : ocr_signals[k].sig = name

\* C4: whatever the runs so far and their batches did (cache hits, answers
\* that parse, non-zero exits, timeouts, unparsable answers), no entry of
\* the cache file holds a text that starts with the marker "[OCR".
C4_CachePurity ==
    \A k \in 1..Len(cache_file.pages) :
        ~HasErrorMarker(cache_file.pages[k].original_text)

\* A later run had cache hits and a batch that timed out, and wrote the
\* cache file without the results of that batch.
C4_Witness ==
    /\ ocr_pc = "done" /\ session >= 2
    /\ \E k \in 1..Len(ocr_calls) : ocr_calls[k].out.k = "timeout"
    /\ \E i \in 1..Len(ocr_out) : ocr_out[i].original_text = OcrErrTimeout
    /\ \E i \in 1..Len(ocr_out) : i \notin {pending_indices[j] : j \in 1..Len(pending_indices)}
    /\ cache_file.exists
    /\ cache_file.pages = cacheable(ocr_out)
    /\ Len(cache_file.pages) < Len(ocr_out)
    /\ cache_file.pages # cached_pages

\* ------------------------------------------------------------------------
\* C5  Cache effectiveness
\* ------------------------------------------------------------------------
\* The digest of the i-th image is in the loaded cache.
Hit(i) ==
    \E k \in 1..Len(cached_pages) : cached_pages[k].image_hash = ocr_images[i].hash

CachedText(i) ==
    LET hits == {k \in 1..Len(cached_pages) :
                    cached_pages[k].image_hash = ocr_images[i].hash}
    IN cached_pages[CHOOSE k \in hits : \A j \in hits : j <= k].original_text

\* C5: no invocation of the tool covers an image whose digest is in the
\* loaded cache; the result of such an image is the cached text under the
\* page number of this run, in the results and in the list finished
\* carries; a run whose images all hit the cache invokes the tool not once.
C5_CacheEffectiveness ==
    /\ \A c \in 1..Len(ocr_calls) : \A k \in 1..Len(ocr_calls[c].indices) :
           ~Hit(ocr_calls[c].indices[k])
    /\ \A i \in 1..Len(ocr_out) :
           Hit(i) =>
               /\ ocr_out[i] = [page |-> ocr_page_numbers[i],
                                original_text |-> CachedText(i),
                                image_hash |-> ocr_images[i].hash]
               /\ (OcrEmitted("finished") => ocr_finished[i] = ocr_out[i])
    /\ (ocr_images # <<>> /\ \A i \in 1..Len(ocr_images) : Hit(i)) =>
           /\ ocr_calls = <<>>
           /\ (ocr_pc = "done" /\ ~ocr_cancelled) => OcrEmitted("finished")

\* A run over renamed scans: an image hit the cache under another page
\* number than the cached one, and the one new image went to the tool.
C5_Witness ==
    /\ ocr_pc = "done" /\ OcrEmitted("finished")
    /\ \E i \in 1..Len(ocr_images) :
           /\ Hit(i)
           /\ \A k \in 1..Len(cached_pages) :
                  cached_pages[k].image_hash = ocr_images[i].hash =>
                      cached_pages[k].page # ocr_page_numbers[i]
           /\ ocr_finished[i].original_text = Transcript(ocr_images[i].hash)
    /\ Len(ocr_calls) = 1
    /\ Len(ocr_calls[1].indices) = 1
    /\ ~Hit(ocr_calls[1].indices[1])

\* ------------------------------------------------------------------------
\* C11  Retry trigger
\* ------------------------------------------------------------------------
\* The parse of the first answer of grade call g.
FirstParse(g) ==
    parse_batch_result(calls[g].out.text, Len(calls[g].pages), calls[g].pages)

\* No slot of the batch was filled from an item.
FillsNoSlot(rs) == \A i \in 1..Len(rs) : rs[i].total_score = None

\* The first call of grade call g exited 0 with output, and extraction and
\* reconciliation filled no slot.
FirstAnswerUnusable(g) ==
    /\ calls[g].out.k = "exit" /\ calls[g].out.rc = 0
    /\ calls[g].out.text # <<>>
    /\ calls[g].pages # <<>>
    /\ ~FirstParse(g).raised
    /\ FillsNoSlot(FirstParse(g).results)

\* C11: whenever the first call of a batch exits 0 with non-empty output and
\* no slot of the batch is filled (no JSON array found, or items found but
\* none placed), exactly one reformat call is issued for the batch, and the
\* results of the batch are those parsed from the reformat output.
C11_RetryTrigger ==
    \A g \in GradeCalls :
        (Completed(g) /\ FirstAnswerUnusable(g)) =>
            /\ Cardinality(RetriesOf(g)) = 1
            /\ \A k \in RetriesOf(g) :
                   retry_json_conversion(calls[k].out).some =>
                       calls[g].ret =
                           parse_batch_result(calls[k].out.text, Len(calls[g].pages),
                                              calls[g].pages).results

\* The part of C11 that the code keeps: with no JSON array found in the
\* non-blank first answer, exactly one reformat call is issued.
C11_NoJsonRetried ==
    \A g \in GradeCalls :
        (Completed(g) /\ FirstAnswerUnusable(g) /\ ~IsBlank(calls[g].out.text)
             /\ extract_all_json_arrays(calls[g].out.text) = <<>>) =>
            Cardinality(RetriesOf(g)) = 1

\* ------------------------------------------------------------------------
\* C12  Cache accumulation
\* ------------------------------------------------------------------------
\* The digests that have an entry in a cache file.
CachedHashes(file) == {file.pages[k].image_hash : k \in 1..Len(file.pages)}

\* C12: no step of any session removes an entry from the cache file: the
\* file written at the end of a session holds the entries that were loaded
\* at its start (and those the session produced), also when the session
\* works on other images.
C12_CacheAccumulation ==
    [][CachedHashes(cache_file) \subseteq CachedHashes(cache_file')]_vars

\* ------------------------------------------------------------------------
\* C13  Only verified entries are cached
\* ------------------------------------------------------------------------
PendingSet == {pending_indices[j] : j \in 1..Len(pending_indices)}

\* No answer of this run held an item for the page of the i-th image.
NoItemFor(i) == ocr_page_numbers[i] \notin DOMAIN all_ocr_texts

\* C13: every entry of the cache file holds a text an answer of the tool
\* returned (every item of an answer carries a text here, so no entry is
\* empty), and a page for which the answers of the run held no item has no
\* entry in the cache file after the run.
C13_VerifiedEntries ==
    /\ \A k \in 1..Len(cache_file.pages) : cache_file.pages[k].original_text # ""
    /\ ocr_pc = "done" =>
           \A i \in PendingSet :
               NoItemFor(i) => ocr_images[i].hash \notin CachedHashes(cache_file)

\* ------------------------------------------------------------------------
\* C14  Positional fallback
\* ------------------------------------------------------------------------
\* The k-th item declares no page, or a page that is not expected.
Unmatched(k) ==
    items[k].pt = "absent" \/ page_to_index(expected, items[k].p) = 0

\* C14: an item whose page is absent or not expected is placed at the slot
\* of its ordinal position: the k-th item is found in the k-th slot (where
\* that slot exists and no item declares the slot's page).
C14_PositionalFallback ==
    upc = "done" =>
        \A k \in 1..Len(items) :
            (Unmatched(k) /\ k <= Len(expected) /\ MatchingItems(k) = {}) =>
                results.results[k] = parse_single_item(items[k], expected[k])

\* What the code does instead: the slot is the declared page taken as a
\* 1-based position, and an item without page is dropped.
C14_ByDeclaredNumber ==
    upc = "done" =>
        \A i \in 1..Len(expected) :
            (MatchingItems(i) = {} /\ PositionalItems(i) # {}) =>
                \E k \in PositionalItems(i) :
                    results.results[i] = parse_single_item(items[k], expected[i])

\* ------------------------------------------------------------------------
\* C15  Unfenced extraction
\* ------------------------------------------------------------------------
\* Prose without brackets, a bracketed citation (an array that holds no
\* object), and unfenced arrays of objects: plain, holding a nested array
\* or a string with a balanced pair, holding a string with one bracket.
BalancedArrayKinds == {"array1", "array_nested"}
UnfencedKinds ==
    {"prose", "prose_nl", "cite"} \cup BalancedArrayKinds
        \cup {"array_close", "array_open"}

ArrayObjects(ss) == Concat([s \in 1..Len(ss) |-> SegArrayObjs(ss[s], s)])

\* C15: for a text without code fences, _extract_all_json_arrays returns
\* the objects of every top-level array of objects, also when an object
\* holds a nested array or a string with '[' or ']', array after array in
\* text order.
C15_UnfencedExtraction ==
    (upc = "done" /\ \A s \in 1..Len(segs) : segs[s] \in UnfencedKinds) =>
        merged = ArrayObjects(segs)

\* The part of C15 that the code keeps: arrays whose inner brackets are
\* balanced are all recovered, in text order.
C15_BalancedOnly ==
    (upc = "done"
         /\ \A s \in 1..Len(segs) :
                segs[s] \in {"prose", "prose_nl", "cite"} \cup BalancedArrayKinds) =>
        merged = ArrayObjects(segs)

\* ------------------------------------------------------------------------
\* C16  Empty list when nothing parses
\* ------------------------------------------------------------------------
\* The bracket spans of a text that are JSON arrays of objects.
UsableSpans(t) ==
    {c \in (1..Len(t)) \X (1..Len(t)) :
        /\ c[1] < c[2]
        /\ t[c[1]].k = "lb" /\ t[c[2]].k = "rb"
        /\ LET r == json_loads(SubSeq(t, c[1], c[2])) IN
           r.ok /\ r.val.k = "list" /\ r.items # <<>> /\ r.items[1].k = "obj"}

\* Some fenced block of the text is a JSON array with elements or an object.
UsableFenced(t) == FencedPass(t, 1, <<>>) # <<>>

NothingParses(t) == ~UsableFenced(t) /\ UsableSpans(t) = {}

\* What the caller returns for a batch of two pages, 17 and 18.
CallerResults == parse_batch_result(text, 2, <<17, 18>>)

NoJsonResults ==
    WithError([i \in 1..2 |-> create_empty_result(16 + i)], ErrNoJson)

\* C16: _extract_all_json_arrays returns a list for every text; the list is
\* empty exactly when no fenced block and no bracket span of the text
\* parses to usable JSON, and _parse_batch_result then gives every page of
\* the batch the 'no JSON found' error.
C16_EmptyExactlyWhenNothingParses ==
    upc = "done" =>
        /\ (merged = <<>>) <=> NothingParses(text)
        /\ merged = <<>> =>
               ~CallerResults.raised /\ CallerResults.results = NoJsonResults

\* The part of C16 that the code keeps: a text in which nothing parses
\* gives the empty list, and for an empty list every page of the batch
\* carries an error ('output is empty' for a blank text, 'no JSON found'
\* otherwise), never a plain zero-scored result.
C16_EmptyIsAnError ==
    upc = "done" =>
        /\ NothingParses(text) => merged = <<>>
        /\ merged = <<>> =>
               /\ ~CallerResults.raised
               /\ \A i \in 1..2 :
                      CallerResults.results[i].error
                          = (IF text = <<>> \/ IsBlank(text)
                             THEN ErrEmpty ELSE ErrNoJson)

\* ------------------------------------------------------------------------
\* C17  Cooperative cancellation
\* ------------------------------------------------------------------------
\* An external invocation is in flight.
InFlight == calls # <<>> /\ calls[Len(calls)].out = Pending

\* This step starts an external invocation.
StartsCall == Len(calls') > Len(calls)

\* C17: cancel() during an external invocation leaves the invocation in
\* flight, and once cancel() was called the worker starts no external
\* invocation any more, neither the grading call of the next batch nor a
\* reformat retry call for the current batch.
C17_CooperativeCancel ==
    [][/\ (~is_cancelled /\ is_cancelled' /\ InFlight) =>
              (calls' = calls /\ pc' = pc)
       /\ is_cancelled => ~StartsCall]_vars

\* The part of C17 that the code keeps: cancel() does not touch the call in
\* flight, and after it no grading call of a further batch is started (the
\* only call that can still start is the reformat retry of the batch whose
\* call was in flight).
C17_NoNextBatch ==
    [][/\ (~is_cancelled /\ is_cancelled' /\ InFlight) =>
              (calls' = calls /\ pc' = pc)
       /\ (is_cancelled /\ StartsCall) =>
              /\ calls'[Len(calls')].kind = "retry"
              /\ pc = "invoking"]_vars

\* ------------------------------------------------------------------------
\* C18  Strict sequencing inside a worker
\* ------------------------------------------------------------------------
\* One run of a worker of either kind: a GradingWorker run, or OcrWorker
\* runs over one cache file.
InitWorkers == Init \/ InitOcr

NextWorkers == Next \/ NextOcr

SpecWorkers == InitWorkers /\ [][NextWorkers]_vars

\* The calls of a history that have not returned.
InFlightCalls(cs) == {k \in 1..Len(cs) : cs[k].out = Pending}

\* The texts the answer of transcription call k gave are in all_ocr_texts.
OcrRecorded(k) ==
    /\ ocr_calls[k].out # Pending
    /\ DOMAIN ocr_single_batch(ocr_calls[k].out, ocr_calls[k].pages)
           \subseteq DOMAIN all_ocr_texts
    /\ ocr_batch_start > ocr_calls[k].start

\* C18: in a GradingWorker run and in an OcrWorker run at most one external
\* invocation is in flight at any time, and it is the one started last; when
\* the call of a later batch has started, the call of every earlier batch
\* and its reformat retries have returned and the results of the earlier
\* batch are recorded.
C18_StrictSequencing ==
    /\ Cardinality(InFlightCalls(calls)) <= 1
    /\ \A k \in InFlightCalls(calls) :
           k = Len(calls) /\ pc \in {"invoking", "retrying"}
    /\ \A g \in GradeCalls : \A h \in GradeCalls :
           g < h =>
               /\ Completed(g)
               /\ \A k \in {g} \cup RetriesOf(g) : calls[k].out # Pending
               /\ calls[g].start < calls[h].start
               /\ path # "ocr" =>
                      \A i \in 1..Len(calls[g].ret) :
                          all_results[calls[g].start + i] = calls[g].ret[i]
    /\ Cardinality(InFlightCalls(ocr_calls)) <= 1
    /\ \A k \in InFlightCalls(ocr_calls) :
           k = Len(ocr_calls) /\ ocr_pc = "invoking"
    /\ \A k \in 1..Len(ocr_calls) - 1 : OcrRecorded(k)

\* The call of a second batch is in flight after the first batch had its
\* grading call and a reformat retry.
C18_Witness ==
    /\ pc = "invoking"
    /\ \E g \in GradeCalls :
           /\ RetriesOf(g) # {}
           /\ Completed(g)
           /\ \E h \in GradeCalls : g < h /\ calls[h].out = Pending

\* ------------------------------------------------------------------------
\* C19  Progress per batch
\* ------------------------------------------------------------------------
\* A progress event whose processedCount is the start of the batch of
\* grade call g (the event run() emits before the loop counts for the
\* first batch).
ProgressFor(g) ==
    {k \in 1..Len(signals) :
        signals[k].sig = "progress" /\ signals[k].cur = calls[g].start}

\* C19: on every grading path (images, transcripts, and the image fallback
\* taken when every transcript failed) at least one progress event is
\* emitted for each batch that is processed.
C19_ProgressPerBatch == \A g \in GradeCalls : ProgressFor(g) # {}

\* The part of C19 that the code keeps: the image loop and the transcript
\* loop emit a progress event (batch start, loop total) at the head of
\* every batch, after the event of run().
C19_OutsideFallback ==
    path # "fallback" =>
        \A g \in GradeCalls :
            \E k \in ProgressFor(g) : k > 1 /\ signals[k].tot = LoopTotal

\* ------------------------------------------------------------------------
\* C20  Setup failures are the only hard failures
\* ------------------------------------------------------------------------
\* C20: when no week is selected, the prompt file is missing or no image is
\* found, run() emits error with the reason and nothing else, starts no
\* external invocation and emits no finished; and the error signal is
\* emitted in no other run.
C20_SetupFailuresOnly ==
    /\ (pc = "done" /\ SetupError # "") =>
           /\ signals = <<Sig("error", 0, 0, SetupError)>>
           /\ calls = <<>>
           /\ ~Emitted("finished")
    /\ Emitted("error") => SetupError # ""

\* The part of C20 that the code keeps: a setup failure ends the run with
\* the error signal alone, and a run that passed the setup emits error only
\* when an answer of the tool made the parser raise.
C20_SetupOrParser ==
    /\ (pc = "done" /\ SetupError # "") =>
           /\ signals = <<Sig("error", 0, 0, SetupError)>>
           /\ calls = <<>>
           /\ ~Emitted("finished")
    /\ Emitted("error") => (SetupError # "" \/ ParserRaised)

\* ------------------------------------------------------------------------
\* C21  Partial batch failure is recorded per page
\* ------------------------------------------------------------------------
\* The items of the final answer of grade call g.
FinalItems(g) == extract_all_json_arrays(FinalText(g))

\* Some item of the final answer of grade call g is placed in slot i of the
\* batch (by its declared page, or by the declared page read as a sequence
\* number).
Placed(g, i) ==
    \E k \in 1..Len(FinalItems(g)) :
        LET item == FinalItems(g)[k]
            idx == page_to_index(calls[g].pages, item.p)
        IN /\ item.k = "obj" /\ item.pt = "int"
           /\ \/ idx = i
              \/ idx = 0 /\ item.p = i

\* The answer of grade call g was parsed and gave items for some pages.
PartlyAnswered(g) ==
    /\ Completed(g)
    /\ calls[g].out.k = "exit" /\ calls[g].out.rc = 0
    /\ \E i \in 1..Len(calls[g].pages) : Placed(g, i)
    /\ \E i \in 1..Len(calls[g].pages) : ~Placed(g, i)

\* The input positions whose transcript is missing or error-tagged.
InvalidTranscriptPositions ==
    {i \in 1..Len(image_files) :
        \A k \in 1..Len(valid_pages) : valid_pages[k].i # i}

\* C21: when the tool returns usable items for only some pages of a batch,
\* every page of the batch without an item ends with a result whose error
\* is set; and in transcript-based grading a page whose transcript is
\* missing or error-tagged, while other pages are valid, ends with error
\* set.
C21_PartialFailureRecorded ==
    /\ \A g \in GradeCalls :
           PartlyAnswered(g) =>
               \A i \in 1..Len(calls[g].pages) :
                   ~Placed(g, i) => calls[g].ret[i].error # ""
    /\ (path = "ocr" /\ pc = "done" /\ Emitted("finished")) =>
           \A i \in InvalidTranscriptPositions : finished_list[i].error # ""

\* The part of C21 that the code keeps: a page of a partly answered batch
\* without an item keeps its own slot, holding the empty result of its page
\* (no score, no error).
C21_EmptyResultKept ==
    \A g \in GradeCalls :
        PartlyAnswered(g) =>
            \A i \in 1..Len(calls[g].pages) :
                ~Placed(g, i) =>
                    calls[g].ret[i] = create_empty_result(calls[g].pages[i])

\* ========================================================================
\* _find_claude_command and the outcome of the invocation
\* ========================================================================
\* The harness variables of _extract_all_json_arrays and
\* _parse_batch_result stay unused.
TextOff ==
    /\ segs = <<>> /\ items = <<>> /\ text = <<>> /\ merged = <<>>
    /\ expected = <<>> /\ results = [raised |-> FALSE, results |-> <<>>]

\* common_paths, lines 45-57, in list order.
common_paths ==
    <<"~/.local/bin", "~/.nvm/versions/node", "/opt/homebrew/bin",
      "/usr/local/bin", "~/.npm-global/bin", "~/.yarn/bin">>

MaxNvmVersions == 2

\* What the file system holds: which = the file shutil.which("claude")
\* finds on PATH ("" for None); nvm = the version directories under
\* ~/.nvm/versions/node, latest first, TRUE where bin/claude exists;
\* common = the entries of common_paths that hold a file claude.
FindEnvironments ==
    [which : {"", "/usr/bin/claude"},
     nvm : UNION {[1..n -> BOOLEAN] : n \in 0..MaxNvmVersions},
     common : SUBSET (1..Len(common_paths))]

NvmHits(env) == {v \in 1..Len(env.nvm) : env.nvm[v]}

\* The well-known install location the search takes (lines 59-73), "" when
\* none holds the tool.
known_location(env) ==
    IF NvmHits(env) # {}
    THEN "~/.nvm/versions/node/v"
             \o ToString(CHOOSE v \in NvmHits(env) : \A w \in NvmHits(env) : v <= w)
             \o "/bin/claude"
    ELSE IF env.common # {}
    THEN common_paths[CHOOSE i \in env.common : \A j \in env.common : i <= j]
             \o "/claude"
    ELSE ""

\* _find_claude_command, lines 32-77.
find_claude_command(env) ==
    IF env.which # "" THEN env.which
    ELSE IF known_location(env) # "" THEN known_location(env)
    ELSE "claude"

\* subprocess.run([claude_cmd, ...]) for a batch of the page 1: the bare
\* name "claude" is on no directory of PATH when the search found nothing,
\* and FileNotFoundError is caught at lines 469-475.
invoke_found(cmd) ==
    IF cmd = "claude"
    THEN first_call([k |-> "notfound", rc |-> 0, text |-> <<>>], <<1>>)
    ELSE [what |-> "started", results |-> <<>>]

InitFind ==
    /\ GOff /\ SOff /\ OOff /\ TextOff /\ WOff
    /\ upc = "input"
    /\ fn_in \in FindEnvironments
    /\ fn_out = <<>>

FindCommand ==
    /\ upc = "input"
    /\ fn_out' = [cmd |-> find_claude_command(fn_in),
                  run |-> invoke_found(find_claude_command(fn_in))]
    /\ upc' = "done"
    /\ UNCHANGED <<segs, items, text, merged, expected, results, fn_in,
                   gvars, svars, ovars, wvars>>

NextFind == FindCommand

SpecFind == InitFind /\ [][NextFind]_vars

\* ------------------------------------------------------------------------
\* C22  Tool resolution order
\* ------------------------------------------------------------------------
\* C22: the tool is taken from the well-known install locations when one of
\* them holds it, and from the ambient search path only when none does;
\* when it is found nowhere the invocation returns the tool-not-found error
\* for every page and raises nothing.
C22_ResolutionOrder ==
    upc = "done" =>
        /\ known_location(fn_in) # "" => fn_out.cmd = known_location(fn_in)
        /\ (known_location(fn_in) = "" /\ fn_in.which # "") =>
               fn_out.cmd = fn_in.which
        /\ (known_location(fn_in) = "" /\ fn_in.which = "") =>
               /\ fn_out.run.what = "return"
               /\ fn_out.run.results = ErrorResults(<<1>>, ErrNotFound)

\* The part of C22 that the code keeps: the search path comes first, the
\* well-known locations are searched only when the tool is not on it, and a
\* tool found nowhere gives the tool-not-found error for every page.
C22_PathFirst ==
    upc = "done" =>
        /\ fn_in.which # "" => fn_out.cmd = fn_in.which
        /\ (fn_in.which = "" /\ known_location(fn_in) # "") =>
               fn_out.cmd = known_location(fn_in)
        /\ (known_location(fn_in) = "" /\ fn_in.which = "") =>
               /\ fn_out.run.what = "return"
               /\ fn_out.run.results = ErrorResults(<<1>>, ErrNotFound)

\* ========================================================================
\* app/utils/qr_parser.py: parse_qr_value, extract_week_info,
\* is_different_week
\* ========================================================================
\* A QR value is the sequence of its '_'-separated fields (<<>> is the
\* empty string).  A field is [txt, isdigit, len, num, int]: its text,
\* str.isdigit(), len(), whether int() accepts it, and the value of int().
QrField(txt, isdigit, len, num, int) ==
    [txt |-> txt, isdigit |-> isdigit, len |-> len, num |-> num, int |-> int]

QrFields ==
    { QrField("2025", TRUE, 4, TRUE, 2025),
      QrField("13", TRUE, 2, TRUE, 13),
      QrField("12", TRUE, 2, TRUE, 12),
      QrField("second term", FALSE, 2, FALSE, 0),
      QrField("first term", FALSE, 2, FALSE, 0),
      QrField("A", FALSE, 1, FALSE, 0) }

MaxQrFields == 5

QrValues == UNION {[1..n -> QrFields] : n \in 0..MaxQrFields}

\* datetime.now(): the calendar year and the month.
Nows == {[year |-> 2026, month |-> 3], [year |-> 2026, month |-> 11]}

NoStudent == [some |-> FALSE, year |-> 0, term |-> "", week |-> 0,
              class_name |-> "", attendance_no |-> 0]

\* A parser that knows the old format only.
parse_qr_value_old_format_only(qr, now) ==
    IF qr = <<>> THEN NoStudent
    ELSE IF Len(qr) < 4 THEN NoStudent
    ELSE IF ~qr[2].num \/ ~qr[4].num THEN NoStudent
         ELSE [some |-> TRUE,
               year |-> IF now.month >= 4 THEN now.year ELSE now.year - 1,
               term |-> qr[1].txt, week |-> qr[2].int,
               class_name |-> qr[3].txt, attendance_no |-> qr[4].int]

\* parse_qr_value, lines 46-104.  int() of a field that is no number raises
\* ValueError and a missing field raises IndexError: both give None.
parse_qr_value(qr, now) ==
    IF qr = <<>> THEN NoStudent
    ELSE IF Len(qr) < 4 THEN NoStudent
    ELSE IF qr[1].isdigit /\ qr[1].len = 4
    THEN IF ~qr[1].num \/ ~qr[3].num \/ Len(qr) < 5 THEN NoStudent
         ELSE IF ~qr[5].num THEN NoStudent
         ELSE [some |-> TRUE, year |-> qr[1].int, term |-> qr[2].txt,
               week |-> qr[3].int, class_name |-> qr[4].txt,
               attendance_no |-> qr[5].int]
    ELSE IF ~qr[2].num \/ ~qr[4].num THEN NoStudent
         ELSE [some |-> TRUE,
               year |-> IF now.month >= 4 THEN now.year ELSE now.year - 1,
               term |-> qr[1].txt, week |-> qr[2].int,
               class_name |-> qr[3].txt, attendance_no |-> qr[4].int]

NoInfo == [some |-> FALSE, year |-> 0, term |-> "", week |-> 0, class_name |-> ""]

\* extract_week_info, lines 290-308.
extract_week_info(qr, now) ==
    LET student == parse_qr_value(qr, now) IN
    IF ~student.some THEN NoInfo
    ELSE [some |-> TRUE, year |-> student.year, term |-> student.term,
          week |-> student.week, class_name |-> student.class_name]

\* A comparison of the week alone.
is_different_week_ignoring_term(qr, current_week, current_term, now) ==
    LET info == extract_week_info(qr, now) IN
    IF ~info.some THEN FALSE
    ELSE info.week # current_week

\* is_different_week, lines 311-332.
is_different_week(qr, current_week, current_term, now) ==
    LET info == extract_week_info(qr, now) IN
    IF ~info.some THEN FALSE
    ELSE info.week # current_week \/ info.term # current_term

InitWeek ==
    /\ GOff /\ SOff /\ OOff /\ TextOff /\ WOff
    /\ upc = "input"
    /\ fn_in \in [qr : QrValues, now : Nows, current_week : {12, 13},
                  current_term : {"first term", "second term"}]
    /\ fn_out = <<>>

CheckWeek ==
    /\ upc = "input"
    /\ fn_out' = [info |-> extract_week_info(fn_in.qr, fn_in.now),
                  different |-> is_different_week(fn_in.qr, fn_in.current_week,
                                                  fn_in.current_term, fn_in.now)]
    /\ upc' = "done"
    /\ UNCHANGED <<segs, items, text, merged, expected, results, fn_in,
                   gvars, svars, ovars, wvars>>

NextWeek == CheckWeek

SpecWeek == InitWeek /\ [][NextWeek]_vars

\* ------------------------------------------------------------------------
\* C23  is_different_week
\* ------------------------------------------------------------------------
\* A QR value in the new format year_term_week_class_no[_name].
NewFormat(qr) ==
    /\ Len(qr) >= 5
    /\ qr[1].isdigit /\ qr[1].len = 4 /\ qr[1].num
    /\ qr[3].num /\ qr[5].num

\* A QR value in the old format term_week_class_no[_name].
OldFormat(qr) ==
    /\ Len(qr) >= 4
    /\ ~(qr[1].isdigit /\ qr[1].len = 4)
    /\ qr[2].num /\ qr[4].num

QrParses(qr) == NewFormat(qr) \/ OldFormat(qr)

QrWeek(qr) == IF NewFormat(qr) THEN qr[3].int ELSE qr[2].int
QrTerm(qr) == IF NewFormat(qr) THEN qr[2].txt ELSE qr[1].txt
QrClass(qr) == IF NewFormat(qr) THEN qr[4].txt ELSE qr[3].txt

\* C23: is_different_week returns True exactly when the QR value parses and
\* its week differs from current_week or its term differs from
\* current_term; for a value that does not parse it returns False.
C23_IsDifferentWeek ==
    upc = "done" =>
        /\ fn_out.different <=>
               /\ QrParses(fn_in.qr)
               /\ \/ QrWeek(fn_in.qr) # fn_in.current_week
                  \/ QrTerm(fn_in.qr) # fn_in.current_term
        /\ ~QrParses(fn_in.qr) => ~fn_out.different

\* A value of the current week and another term is a different week.
C23_Witness ==
    /\ upc = "done"
    /\ QrParses(fn_in.qr)
    /\ QrWeek(fn_in.qr) = fn_in.current_week
    /\ QrTerm(fn_in.qr) # fn_in.current_term
    /\ fn_out.different

\* ------------------------------------------------------------------------
\* C25  extract_week_info
\* ------------------------------------------------------------------------
\* The school year datetime.now() falls in (it starts in April).
InferredYear(now) == IF now.month >= 4 THEN now.year ELSE now.year - 1

\* C25: extract_week_info returns None for the empty string and for every
\* value that cannot be parsed (fewer than four fields, or a week or an
\* attendance number that is missing or no number); for the new format it
\* returns the year, term, week and class of the value, for the old format
\* its term, week and class with the inferred year.
C25_ExtractWeekInfo ==
    upc = "done" =>
        /\ fn_in.qr = <<>> => ~fn_out.info.some
        /\ ~QrParses(fn_in.qr) => ~fn_out.info.some
        /\ NewFormat(fn_in.qr) =>
               fn_out.info = [some |-> TRUE, year |-> fn_in.qr[1].int,
                              term |-> fn_in.qr[2].txt, week |-> fn_in.qr[3].int,
                              class_name |-> fn_in.qr[4].txt]
        /\ OldFormat(fn_in.qr) =>
               fn_out.info = [some |-> TRUE, year |-> InferredYear(fn_in.now),
                              term |-> fn_in.qr[1].txt, week |-> fn_in.qr[2].int,
                              class_name |-> fn_in.qr[3].txt]

\* A value of the new format was read: 2025, second term, week 13, class A.
C25_Witness ==
    /\ upc = "done"
    /\ NewFormat(fn_in.qr)
    /\ fn_out.info = [some |-> TRUE, year |-> 2025, term |-> "second term",
                      week |-> 13, class_name |-> "A"]

\* ========================================================================
\* app/utils/additional_answer_manager.py: save_metadata, load_metadata
\* ========================================================================
\* JSON values as json.dump writes them and json.load reads them.
JStr(x) == [t |-> "string", s |-> x, n |-> 0, b |-> FALSE]
JNum(x) == [t |-> "number", s |-> "", n |-> x, b |-> FALSE]
JBool(x) == [t |-> "bool", s |-> "", n |-> 0, b |-> x]

\* The Python value json.load gives for a JSON value.
PyStr(j) == j.s
PyInt(j) == j.n
PyBool(j) == j.b

\* AdditionalAnswerItem.to_dict (lines 25-36) written by json.dump.
item_to_json(item) ==
    [filename |-> JStr(item.filename),
     student_name |-> JStr(item.student_name),
     attendance_no |-> JNum(item.attendance_no),
     class_name |-> JStr(item.class_name),
     target_week |-> JNum(item.target_week),
     target_term |-> JStr(item.target_term),
     qr_data |-> JStr(item.qr_data),
     graded |-> JBool(item.graded)]

\* A from_dict that does not read "graded" and leaves the default.
from_dict_default_graded(d) ==
    [filename |-> PyStr(d.filename),
     student_name |-> PyStr(d.student_name),
     attendance_no |-> PyInt(d.attendance_no),
     class_name |-> PyStr(d.class_name),
     target_week |-> PyInt(d.target_week),
     target_term |-> PyStr(d.target_term),
     qr_data |-> PyStr(d.qr_data),
     graded |-> FALSE]

\* AdditionalAnswerItem.from_dict (lines 38-50) on what json.load read.
from_dict(d) ==
    [filename |-> PyStr(d.filename),
     student_name |-> PyStr(d.student_name),
     attendance_no |-> PyInt(d.attendance_no),
     class_name |-> PyStr(d.class_name),
     target_week |-> PyInt(d.target_week),
     target_term |-> PyStr(d.target_term),
     qr_data |-> PyStr(d.qr_data),
     graded |-> PyBool(d.graded)]

NoMetadataFile == [exists |-> FALSE, detected_from_week |-> JNum(0), items |-> <<>>]

\* save_metadata, lines 85-100: the content of additional/metadata.json.
save_metadata(manager) ==
    [exists |-> TRUE,
     detected_from_week |-> JNum(manager.detected_from_week),
     items |-> [i \in 1..Len(manager.items) |-> item_to_json(manager.items[i])]]

\* load_metadata, lines 102-122: [ret, manager].
load_metadata(manager, file) ==
    IF ~file.exists THEN [ret |-> FALSE, manager |-> manager]
    ELSE [ret |-> TRUE,
          manager |->
              [items |-> [i \in 1..Len(file.items) |-> from_dict(file.items[i])],
               detected_from_week |-> PyInt(file.detected_from_week)]]

MaxMetaItems == 2

MetaItems ==
    [filename : {"a.png", "b.png"}, student_name : {"Yamada"},
     attendance_no : {1, 12}, class_name : {"A"}, target_week : {5},
     target_term : {"first term"}, qr_data : {"", "first term_5_A_01"},
     graded : BOOLEAN]

MetaItemLists == UNION {[1..n -> MetaItems] : n \in 0..MaxMetaItems}

\* fn_in: the manager that saves and the new manager that loads; fn_out:
\* the metadata file, the new manager, and what load_metadata returned.
InitMeta ==
    /\ GOff /\ SOff /\ OOff /\ TextOff /\ WOff
    /\ upc = "input"
    /\ \E its \in MetaItemLists, week \in {0, 5}, graded \in BOOLEAN :
           /\ fn_in = [items |-> its, detected_from_week |-> week]
           /\ fn_out = [file |-> NoMetadataFile, ret |-> FALSE, loaded |-> FALSE,
                        manager |->
                            [items |-> <<[filename |-> "c.png", student_name |-> "Sato",
                                          attendance_no |-> 3, class_name |-> "B",
                                          target_week |-> 4, target_term |-> "first term",
                                          qr_data |-> "", graded |-> graded]>>,
                             detected_from_week |-> 0]]

SaveMetadata ==
    /\ upc = "input"
    /\ fn_out' = [fn_out EXCEPT !.file = save_metadata(fn_in)]
    /\ upc' = "saved"
    /\ UNCHANGED <<segs, items, text, merged, expected, results, fn_in,
                   gvars, svars, ovars, wvars>>

LoadMetadata ==
    /\ upc \in {"input", "saved"}
    /\ LET r == load_metadata(fn_out.manager, fn_out.file) IN
       fn_out' = [fn_out EXCEPT !.ret = r.ret, !.manager = r.manager,
                                !.loaded = TRUE]
    /\ upc' = "done"
    /\ UNCHANGED <<segs, items, text, merged, expected, results, fn_in,
                   gvars, svars, ovars, wvars>>

NextMeta == SaveMetadata \/ LoadMetadata

SpecMeta == InitMeta /\ [][NextMeta]_vars

\* ------------------------------------------------------------------------
\* C24  Metadata round trip
\* ------------------------------------------------------------------------
\* C24: save_metadata() and then load_metadata() on a new manager of the
\* same directory returns True and gives the same items in the same order,
\* with all fields, and the same detected_from_week; load_metadata() with
\* no metadata file returns False and leaves the manager as it was.
C24_MetadataRoundTrip ==
    /\ (fn_out.loaded /\ fn_out.file.exists) =>
           /\ fn_out.ret
           /\ fn_out.manager.items = fn_in.items
           /\ fn_out.manager.detected_from_week = fn_in.detected_from_week
    /\ (fn_out.loaded /\ ~fn_out.file.exists) =>
           /\ ~fn_out.ret
           /\ Len(fn_out.manager.items) = 1
           /\ fn_out.manager.items[1].filename = "c.png"
           /\ fn_out.manager.detected_from_week = 0

\* Two items, the first graded and the second not, came back from the file.
C24_Witness ==
    /\ upc = "done" /\ fn_out.loaded /\ fn_out.file.exists /\ fn_out.ret
    /\ Len(fn_in.items) = 2
    /\ fn_in.items[1].graded /\ ~fn_in.items[2].graded
    /\ fn_in.detected_from_week = 5
    /\ fn_out.manager.items = fn_in.items

\* ------------------------------------------------------------------------
\* C26  Transcription output in two fenced arrays
\* ------------------------------------------------------------------------
\* Transcription call k was answered with two fenced JSON arrays that
\* together hold an item for every page of the batch.
AnsweredInTwoArrays(k) ==
    /\ Len(ocr_calls[k].pages) >= 2
    /\ ocr_calls[k].out.k = "exit" /\ ocr_calls[k].out.rc = 0
    /\ ocr_calls[k].out.text
           = OcrTextTwoFragments(ocr_calls[k].pages, ocr_calls[k].hashes)

\* The page has a transcript: a text that is neither empty nor an error
\* (nor None, the value of a JSON null).
HasTranscript(pn) ==
    /\ pn \in DOMAIN all_ocr_texts
    /\ all_ocr_texts[pn] # "" /\ all_ocr_texts[pn] # PyNone
    /\ ~HasErrorMarker(all_ocr_texts[pn])

\* C26: when the transcription tool answers with two separate fenced JSON
\* arrays, the transcripts of both arrays are assigned to their pages; no
\* page of the second array is left with an empty or error transcript.
C26_TwoArraysTranscribed ==
    \A k \in 1..Len(ocr_calls) :
        AnsweredInTwoArrays(k) =>
            \A j \in 1..Len(ocr_calls[k].pages) : HasTranscript(ocr_calls[k].pages[j])

\* The part of C26 that the code keeps: the transcripts of the first fenced
\* array are assigned to their pages.
C26_FirstArrayTranscribed ==
    \A k \in 1..Len(ocr_calls) :
        AnsweredInTwoArrays(k) =>
            \A j \in 1..(Len(ocr_calls[k].pages) + 1) \div 2 :
                HasTranscript(ocr_calls[k].pages[j])

\* ------------------------------------------------------------------------
\* C27  Every extracted element is an object
\* ------------------------------------------------------------------------
\* C27: every element of the list _extract_all_json_arrays returns is a
\* JSON object, for fenced and unfenced text alike (a fenced array of
\* numbers contributes nothing), so _parse_batch_result reads the page of
\* every item without raising.
C27_ElementsAreObjects ==
    upc = "done" =>
        /\ \A k \in 1..Len(merged) : merged[k].k = "obj"
        /\ ~CallerResults.raised

\* The part of C27 that the code keeps: when no fenced array of the text
\* holds numbers, every element returned is an object.
C27_ObjectsFromObjectArrays ==
    (upc = "done" /\ \A s \in 1..Len(segs) : segs[s] # "fenced_nums") =>
        /\ \A k \in 1..Len(merged) : merged[k].k = "obj"
        /\ ~CallerResults.raised

\* ------------------------------------------------------------------------
\* C28  Transcripts survive an interrupted session
\* ------------------------------------------------------------------------
\* The images of the completed batches of this run that got a non-error
\* transcript, by content digest.
TranscribedHashes ==
    {h \in {img.hash : img \in Range(ocr_images)} :
        \E k \in 1..Len(ocr_calls) :
            /\ ocr_calls[k].out # Pending
            /\ \E j \in 1..Len(ocr_calls[k].pages) :
                   /\ ocr_calls[k].hashes[j] = h
                   /\ HasTranscript(ocr_calls[k].pages[j])}

\* C28: when a session ends, also after a cancellation or after a failure
\* in a later step, the non-error transcripts of the batches completed
\* before are in the cache file.
C28_TranscriptsSurvive ==
    (ocr_pc = "done" /\ cache_path) =>
        TranscribedHashes \subseteq CachedHashes(cache_file)

\* The part of C28 that the code keeps: a session that runs to its end
\* without cancellation before the last batch and without an exception
\* leaves the non-error transcripts of its batches in the cache file.
C28_SavedAtRegularEnd ==
    (ocr_pc = "done" /\ cache_path /\ OcrEmitted("finished")) =>
        TranscribedHashes \subseteq CachedHashes(cache_file)

\* ------------------------------------------------------------------------
\* C29  A matched slot is not overwritten by the fallback
\* ------------------------------------------------------------------------
\* The items that reach slot i, by their declared page or by the fallback.
ReachingItems(i) == MatchingItems(i) \cup PositionalItems(i)

\* C29: for every order of the items, the final content of a slot that has
\* an item declaring the slot's page comes from such an item (item k
\* carries the score k); an item placed through the fallback never
\* replaces it.
C29_MatchedSlotKept ==
    upc = "done" =>
        \A i \in 1..Len(expected) :
            MatchingItems(i) # {} =>
                \E k \in MatchingItems(i) : results.results[i].total_score = k

\* What the code does: a slot holds the last of the items that reach it,
\* whichever way the item came.
C29_LastItemWins ==
    upc = "done" =>
        \A i \in 1..Len(expected) :
            ReachingItems(i) # {} =>
                results.results[i].total_score
                    = CHOOSE k \in ReachingItems(i) : \A j \in ReachingItems(i) : j <= k

\* ------------------------------------------------------------------------
\* C30  Page identity under repeated page numbers
\* ------------------------------------------------------------------------
HasRepeatedPage(pns) == \E i, j \in 1..Len(pns) : i # j /\ pns[i] = pns[j]

\* Grading: the transcript prepared for input position i is the one the
\* transcription produced for the image at position i.
OwnTranscripts ==
    /\ \A k \in 1..Len(valid_pages) :
           valid_pages[k].ocr_text = ocr_results[valid_pages[k].i].original_text
    /\ \A i \in 1..Len(ocr_results) :
           IsValidTranscript(ocr_results[i].original_text) =>
               \E k \in 1..Len(valid_pages) : valid_pages[k].i = i

\* Grading: every page of a batch whose answer held one item per page has
\* its slot filled from its item (the item of a page carries the page
\* number as its score).
OwnResults ==
    \A g \in GradeCalls :
        (Completed(g) /\ calls[g].out.k = "exit" /\ calls[g].out.rc = 0
             /\ FinalItems(g) = FullItems(calls[g].pages)) =>
            \A k \in 1..Len(calls[g].indices) :
                finished_list[calls[g].indices[k]].total_score = calls[g].pages[k]

\* Transcription: every answer of the run held one item per page of its
\* batch, with the text of that image.
AllAnsweredInFull ==
    \A k \in 1..Len(ocr_calls) :
        /\ ocr_calls[k].out.k = "exit" /\ ocr_calls[k].out.rc = 0
        /\ ocr_calls[k].out.text \in
               {OcrTextFenced(ocr_calls[k].pages, ocr_calls[k].hashes),
                OcrTextPlain(ocr_calls[k].pages, ocr_calls[k].hashes)}

\* C30: when two input images carry the same page number, the page at
\* position i is still graded from the transcript of the image at position
\* i, its result slot is filled from its own item, and the transcription
\* gives position i the text of its own image.
C30_PageIdentity ==
    /\ (HasRepeatedPage(page_numbers) /\ ocr_results # <<>>) => OwnTranscripts
    /\ (HasRepeatedPage(page_numbers) /\ pc = "done" /\ Emitted("finished")) =>
           OwnResults
    /\ (HasRepeatedPage(ocr_page_numbers) /\ ocr_pc = "done"
            /\ OcrEmitted("finished") /\ AllAnsweredInFull) =>
           \A k \in 1..Len(ocr_calls) : \A j \in 1..Len(ocr_calls[k].indices) :
               ocr_out[ocr_calls[k].indices[j]].original_text
                   = Transcript(ocr_calls[k].hashes[j])

\* The part of C30 that the code keeps: with page numbers that are all
\* different every position keeps its own transcript, result and text.
C30_DistinctPages ==
    /\ (~HasRepeatedPage(page_numbers) /\ page_numbers # <<>>
            /\ ocr_results # <<>>) => OwnTranscripts
    /\ (~HasRepeatedPage(page_numbers) /\ pc = "done" /\ Emitted("finished")) =>
           OwnResults
    /\ (~HasRepeatedPage(ocr_page_numbers) /\ ocr_pc = "done"
            /\ OcrEmitted("finished") /\ AllAnsweredInFull) =>
           \A k \in 1..Len(ocr_calls) : \A j \in 1..Len(ocr_calls[k].indices) :
               ocr_out[ocr_calls[k].indices[j]].original_text
                   = Transcript(ocr_calls[k].hashes[j])

\* ------------------------------------------------------------------------
\* C31  Cross-batch isolation in transcription
\* ------------------------------------------------------------------------
\* The pages of the run that are in no position of the batch in flight.
PagesOfOtherBatches == Range(ocr_page_numbers) \ Range(OcrBatchPages)

\* The step in which the answer of the batch in flight is taken leaves the
\* entry of page p in all_ocr_texts as it was.
TranscriptUnchanged(p) ==
    /\ (p \in DOMAIN all_ocr_texts) = (p \in DOMAIN all_ocr_texts')
    /\ p \in DOMAIN all_ocr_texts => all_ocr_texts'[p] = all_ocr_texts[p]

\* C31: the tool output of transcription batch j sets the transcript only
\* of pages of batch j; an item of that output naming the page number of a
\* page of another batch leaves that page's transcript unchanged.
C31_CrossBatchIsolation ==
    [][ocr_pc = "invoking" =>
           \A p \in PagesOfOtherBatches : TranscriptUnchanged(p)]_vars

\* The part of C31 that the code keeps: an answer whose items name pages of
\* the batch only changes no transcript of another batch.
C31_OwnPagesIsolated ==
    [][(ocr_pc = "invoking" /\ ocr_pc' = "loop"
            /\ DOMAIN ocr_single_batch(ocr_calls'[Len(ocr_calls')].out, OcrBatchPages)
                   \subseteq Range(OcrBatchPages)) =>
           \A p \in PagesOfOtherBatches : TranscriptUnchanged(p)]_vars

\* ------------------------------------------------------------------------
\* The callers of the workers: MainWindow (main_window.py 336-386, 404-453)
\* with its ProgressPanel (progress_panel.py 151-252), and
\* AdditionalAnswerPanel (additional_answer_panel.py 513-602, 613-672).
\* A worker is a QThread; its signals reach the handlers through the event
\* queue of the GUI thread.  Of a worker the callers see only its signals and
\* isRunning(), so a worker is [kind, owner, st, cancelled, images, left]
\* with st in setup, loop, invoking, ended; by, stopped, late and overlap
\* are history.
\* ------------------------------------------------------------------------
MaxWorkers == 2
MaxGuiBatches == 1

isRunning(w) == w # 0 /\ workers[w].st # "ended"

Executing == {w \in 1..Len(workers) : workers[w].st # "ended"}

\* GradingWorker(...) or OcrWorker(...) followed by connect and start().
\* late: the transcription worker whose signal created this worker had
\* been stopped by the user.
NewWorker(kind, owner, images, by, late) ==
    [kind |-> kind, owner |-> owner, st |-> "setup", cancelled |-> FALSE,
     images |-> images, left |-> 0, by |-> by, stopped |-> FALSE,
     late |-> late, overlap |-> Executing # {}]

\* worker.cancel() under "if worker and worker.isRunning()".
CancelIfRunning(ws, w) ==
    IF w # 0 /\ ws[w].st # "ended"
    THEN [ws EXCEPT ![w].cancelled = TRUE, ![w].stopped = TRUE]
    ELSE IF w # 0 THEN [ws EXCEPT ![w].stopped = TRUE] ELSE ws

\* The signals sigs of worker w join the queue.  A progress signal that
\* would directly follow a queued progress signal of the same worker is not
\* queued again: the handlers only display it.
Emit(q, w, sigs) ==
    LET evs == [k \in 1..Len(sigs) |-> [w |-> w, sig |-> sigs[k]]] IN
    IF q # <<>> /\ q[Len(q)] = evs[1] /\ evs[1].sig = "progress"
    THEN q \o Tail(evs) ELSE q \o evs

InitGui ==
    /\ UOff /\ GOff /\ SOff /\ OOff
    /\ workers = <<>> /\ gui_queue = <<>>
    /\ mw_is_running = FALSE /\ mw_grading_worker = 0
    /\ ap_is_grading = FALSE /\ ap_ocr_worker = 0 /\ ap_grading_worker = 0
    /\ ap_pending_image_files = "None" /\ handled = {}

\* ---- MainWindow
\* ProgressPanel.start_grading and MainWindow._on_grading_started("cli"),
\* reached from the action button (progress_panel.py 160-163, only when
\* not running) or from the menu (_on_run_grading, main_window.py 336-343).
\* usable: the PDF or the additional-answer images exist.
MwStartGrading ==
    /\ Len(workers) < MaxWorkers
    /\ \E menu \in BOOLEAN, usable \in BOOLEAN, additional \in BOOLEAN :
        /\ menu \/ ~mw_is_running
        /\ IF usable
           THEN /\ mw_is_running' = TRUE
                /\ workers' = Append(workers,
                       NewWorker("grading", "window",
                                 IF additional THEN "list" ELSE "None",
                                 IF menu THEN "menu" ELSE "start", FALSE))
                /\ mw_grading_worker' = Len(workers) + 1
           ELSE \* the warning, then progress_panel.stop_grading()
                /\ ~menu
                /\ mw_is_running' = FALSE
                /\ workers' = CancelIfRunning(workers, mw_grading_worker)
                /\ UNCHANGED mw_grading_worker
    /\ UNCHANGED <<gui_queue, ap_is_grading, ap_ocr_worker, ap_grading_worker,
                   ap_pending_image_files, handled, uvars, gvars, svars, ovars>>

\* ProgressPanel.stop_grading and MainWindow._on_grading_stopped.
MwStopGrading ==
    /\ mw_is_running
    /\ mw_is_running' = FALSE
    /\ workers' = CancelIfRunning(workers, mw_grading_worker)
    /\ UNCHANGED <<gui_queue, mw_grading_worker, ap_is_grading, ap_ocr_worker,
                   ap_grading_worker, ap_pending_image_files, handled,
                   uvars, gvars, svars, ovars>>

\* ---- AdditionalAnswerPanel
\* _toggle_grading -> _start_grading, lines 519-554.
ApStartGrading ==
    /\ ~ap_is_grading
    /\ Len(workers) < MaxWorkers
    /\ ap_is_grading' = TRUE
    /\ \E use_gemini_ocr \in BOOLEAN :
        IF use_gemini_ocr
        THEN /\ ap_pending_image_files' = "list"
             /\ workers' = Append(workers,
                    NewWorker("ocr", "panel", "list", "start", FALSE))
             /\ ap_ocr_worker' = Len(workers) + 1
             /\ UNCHANGED ap_grading_worker
        ELSE /\ workers' = Append(workers,
                    NewWorker("grading", "panel", "list", "start", FALSE))
             /\ ap_grading_worker' = Len(workers) + 1
             /\ UNCHANGED <<ap_ocr_worker, ap_pending_image_files>>
    /\ UNCHANGED <<gui_queue, mw_is_running, mw_grading_worker, handled,
                   uvars, gvars, svars, ovars>>

\* _toggle_grading -> _stop_grading -> _stop_grading_workers, lines 582-602.
ApStopGrading ==
    /\ ap_is_grading
    /\ ap_is_grading' = FALSE
    /\ workers' = CancelIfRunning(CancelIfRunning(workers, ap_ocr_worker),
                                  ap_grading_worker)
    /\ ap_pending_image_files' = "None"
    /\ UNCHANGED <<gui_queue, mw_is_running, mw_grading_worker, ap_ocr_worker,
                   ap_grading_worker, handled, uvars, gvars, svars, ovars>>

\* ---- the worker threads, as far as their callers can observe them
\* GradingWorker.run lines 188-232 and OcrWorker.run lines 70-123.
WorkerSetup(w) ==
    /\ workers[w].st = "setup"
    /\ \E fails \in BOOLEAN, n \in 0..MaxGuiBatches :
        IF workers[w].kind = "grading"
        THEN IF fails
             THEN \* no week, no prompt file or no image: raise -> error
                  /\ workers' = [workers EXCEPT ![w].st = "ended"]
                  /\ gui_queue' = Emit(gui_queue, w, <<"error">>)
             ELSE /\ n > 0
                  /\ gui_queue' = Emit(gui_queue, w, <<"progress">>)
                  /\ workers' = [workers EXCEPT
                         ![w].st = IF workers[w].cancelled THEN "ended" ELSE "loop",
                         ![w].left = n]
        ELSE IF fails
             THEN \* gemini not found, or an exception before the loop
                  /\ workers' = [workers EXCEPT ![w].st = "ended"]
                  /\ gui_queue' = Emit(gui_queue, w, <<"error">>)
             ELSE IF n = 0
             THEN \* no image, or every image in the cache
                  /\ workers' = [workers EXCEPT ![w].st = "ended"]
                  /\ gui_queue' = Emit(gui_queue, w,
                         IF workers[w].cancelled THEN <<"progress">>
                         ELSE <<"progress", "finished">>)
             ELSE /\ workers' = [workers EXCEPT
                         ![w].st = IF workers[w].cancelled THEN "ended" ELSE "loop",
                         ![w].left = n]
                  /\ UNCHANGED gui_queue
    /\ UNCHANGED <<mw_is_running, mw_grading_worker, ap_is_grading,
                   ap_ocr_worker, ap_grading_worker, ap_pending_image_files,
                   handled, uvars, gvars, svars, ovars>>

\* The head of the batch loop and what follows the loop:
\* grading_worker.py 234-248 with 271-292, ocr_worker.py 131-171.
WorkerLoop(w) ==
    /\ workers[w].st = "loop"
    /\ IF workers[w].kind = "grading"
       THEN IF workers[w].cancelled \/ workers[w].left = 0
            THEN \* break or the end of the range, then lines 238-248
                 /\ workers' = [workers EXCEPT ![w].st = "ended"]
                 /\ gui_queue' = Emit(gui_queue, w,
                        IF workers[w].cancelled
                        THEN <<"result_ready", "progress">>
                        ELSE <<"result_ready", "progress", "finished">>)
            ELSE /\ workers' = [workers EXCEPT ![w].st = "invoking"]
                 /\ gui_queue' = Emit(gui_queue, w, <<"progress">>)
       ELSE IF workers[w].cancelled
            THEN \* return
                 /\ workers' = [workers EXCEPT ![w].st = "ended"]
                 /\ UNCHANGED gui_queue
            ELSE IF workers[w].left = 0
            THEN \E raises \in BOOLEAN :
                 /\ workers' = [workers EXCEPT ![w].st = "ended"]
                 /\ gui_queue' = Emit(gui_queue, w,
                        IF raises THEN <<"error">>
                        ELSE <<"progress", "finished">>)
            ELSE /\ workers' = [workers EXCEPT ![w].st = "invoking"]
                 /\ gui_queue' = Emit(gui_queue, w, <<"progress">>)
    /\ UNCHANGED <<mw_is_running, mw_grading_worker, ap_is_grading,
                   ap_ocr_worker, ap_grading_worker, ap_pending_image_files,
                   handled, uvars, gvars, svars, ovars>>

\* subprocess.run returns or times out; a grading worker can raise while
\* it reads the answer (the exception reaches run(), line 250).
WorkerToolReturns(w) ==
    /\ workers[w].st = "invoking"
    /\ \E raises \in BOOLEAN :
        IF raises
        THEN /\ workers[w].kind = "grading"
             /\ workers' = [workers EXCEPT ![w].st = "ended"]
             /\ gui_queue' = Emit(gui_queue, w, <<"error">>)
        ELSE /\ workers' = [workers EXCEPT ![w].st = "loop",
                                           ![w].left = workers[w].left - 1]
             /\ UNCHANGED gui_queue
    /\ UNCHANGED <<mw_is_running, mw_grading_worker, ap_is_grading,
                   ap_ocr_worker, ap_grading_worker, ap_pending_image_files,
                   handled, uvars, gvars, svars, ovars>>

\* ---- the handlers, run by the GUI thread on the next queued signal
\* The event comes from a worker the user stopped, while its owner shows a
\* run that is under way.
StaleFor(w) ==
    /\ workers[w].stopped
    /\ IF workers[w].owner = "window" THEN mw_is_running ELSE ap_is_grading

\* Handlers of MainWindow: _on_grading_progress, _on_result_ready only
\* display; _on_grading_finished and _on_grading_error end in set_complete
\* or set_error (main_window.py 404-453).
MwHandle ==
    /\ gui_queue # <<>>
    /\ workers[Head(gui_queue).w].owner = "window"
    /\ LET w == Head(gui_queue).w
           sig == Head(gui_queue).sig
       IN /\ gui_queue' = Tail(gui_queue)
          /\ handled' = IF StaleFor(w)
                         THEN handled \cup {[owner |-> "window",
                                             kind |-> workers[w].kind,
                                             sig |-> sig]}
                         ELSE handled
          /\ mw_is_running' =
                 IF sig \in {"finished", "error"} THEN FALSE ELSE mw_is_running
    /\ UNCHANGED <<workers, mw_grading_worker, ap_is_grading, ap_ocr_worker,
                   ap_grading_worker, ap_pending_image_files,
                   uvars, gvars, svars, ovars>>

\* Handlers of AdditionalAnswerPanel, lines 569-580 and 603-672.
ApHandle ==
    /\ gui_queue # <<>>
    /\ workers[Head(gui_queue).w].owner = "panel"
    /\ LET w == Head(gui_queue).w
           sig == Head(gui_queue).sig
           terminal == sig \in {"finished", "error"}
       IN /\ gui_queue' = Tail(gui_queue)
          /\ handled' = IF StaleFor(w)
                         THEN handled \cup {[owner |-> "panel",
                                             kind |-> workers[w].kind,
                                             sig |-> sig]}
                         ELSE handled
          /\ IF workers[w].kind = "grading"
             THEN \* _on_grading_finished, _on_grading_error
                  /\ ap_is_grading' = IF terminal THEN FALSE ELSE ap_is_grading
                  /\ UNCHANGED <<workers, ap_grading_worker,
                                 ap_pending_image_files>>
             ELSE IF sig = "finished" /\ ap_pending_image_files = "None"
             THEN \* _on_ocr_finished, lines 570-573: return
                  UNCHANGED <<workers, ap_is_grading, ap_grading_worker,
                              ap_pending_image_files>>
             ELSE IF terminal
             THEN \* _on_ocr_finished line 574, _on_ocr_error lines 577-580:
                  \* _start_grading_worker(image_files, ...)
                  /\ workers' = Append(workers,
                         NewWorker("grading", "panel", ap_pending_image_files,
                                   IF sig = "finished" THEN "_on_ocr_finished"
                                   ELSE "_on_ocr_error",
                                   workers[w].stopped))
                  /\ ap_grading_worker' = Len(workers) + 1
                  /\ ap_pending_image_files' = "None"
                  /\ UNCHANGED ap_is_grading
             ELSE UNCHANGED <<workers, ap_is_grading, ap_grading_worker,
                              ap_pending_image_files>>
    /\ UNCHANGED <<mw_is_running, mw_grading_worker, ap_ocr_worker,
                   uvars, gvars, svars, ovars>>

WorkerSteps ==
    \/ \E w \in 1..Len(workers) : WorkerSetup(w)
    \/ \E w \in 1..Len(workers) : WorkerLoop(w)
    \/ \E w \in 1..Len(workers) : WorkerToolReturns(w)

\* The main window with its workers.
NextWindow ==
    \/ MwStartGrading
    \/ MwStopGrading
    \/ WorkerSteps
    \/ MwHandle

SpecWindow == InitGui /\ [][NextWindow]_vars

\* The additional-answer panel with its workers.
NextPanel ==
    \/ ApStartGrading
    \/ ApStopGrading
    \/ WorkerSteps
    \/ ApHandle

SpecPanel == InitGui /\ [][NextPanel]_vars

\* ------------------------------------------------------------------------
\* C32  Runs are serialized by the caller
\* ------------------------------------------------------------------------
InFlightInvocations == {w \in 1..Len(workers) : workers[w].st = "invoking"}

StartedWhileExecuting == {w \in 1..Len(workers) : workers[w].overlap}

\* C32: whatever the order of start, stop and start again, a new grading or
\* transcription worker is started only when no earlier worker is still
\* executing, so at most one invocation of an external tool is in flight in
\* the application, and no signal of a stopped worker reaches the handlers
\* of the new run.
C32_RunsSerialized ==
    /\ StartedWhileExecuting = {}
    /\ Cardinality(InFlightInvocations) <= 1
    /\ handled = {}

\* The part of C32 that the code keeps: while no run has been stopped and
\* the menu has started none, one worker at a time executes for the window.
C32_SerializedUntilStopped ==
    (\A w \in 1..Len(workers) : ~workers[w].stopped /\ ~workers[w].overlap) =>
        /\ Cardinality(Executing) <= 1
        /\ Cardinality(InFlightInvocations) <= 1
        /\ handled = {}

\* ------------------------------------------------------------------------
\* C33  No grading worker from a late transcription callback
\* ------------------------------------------------------------------------
PanelGradingWorkers ==
    {w \in 1..Len(workers) :
        workers[w].kind = "grading" /\ workers[w].owner = "panel"}

\* C33: after the user has stopped grading in the additional-answer panel,
\* neither the finished nor the error callback of the stopped OcrWorker
\* starts a grading worker, and no grading worker is started with an absent
\* image list.
C33_NoLateStart ==
    \A w \in PanelGradingWorkers :
        /\ ~workers[w].late
        /\ workers[w].images # "None"

\* The part of C33 that the code keeps: the finished callback never starts
\* a grading worker with an absent image list.
C33_FinishedGuarded ==
    \A w \in PanelGradingWorkers :
        workers[w].by = "_on_ocr_finished" => workers[w].images = "list"

\* ------------------------------------------------------------------------
\* C34  Terminal signals
\* ------------------------------------------------------------------------
\* The worker threads run on, and every external call returns or times out;
\* cancel() and a later run are up to the user.
SpecWorkersFair ==
    /\ SpecWorkers
    /\ WF_vars(RunSetup \/ BeginBatch \/ ToolReturns \/ RetryReturns
                   \/ EmitResults \/ Finish)
    /\ WF_vars(OcrSetup \/ OcrBeginBatch \/ OcrToolReturns \/ OcrFinish)

CountOf(sigs, name) == Cardinality({k \in 1..Len(sigs) : sigs[k].sig = name})

\* finished and error exclude each other and each is emitted at most once.
OneTerminalSignal(sigs) ==
    /\ CountOf(sigs, "finished") <= 1
    /\ CountOf(sigs, "error") <= 1
    /\ CountOf(sigs, "finished") + CountOf(sigs, "error") <= 1

TerminalSignalsSafe ==
    /\ OneTerminalSignal(signals)
    /\ OneTerminalSignal(ocr_signals)
    /\ is_cancelled => ~Emitted("finished")
    /\ ocr_cancelled => ~OcrEmitted("finished")

\* C34: in every GradingWorker and OcrWorker run finished and error exclude
\* each other and each is emitted at most once; a run in which cancel() was
\* called before the end of the batch loop emits no finished; a run that is
\* neither cancelled nor failed in setup eventually emits finished, given
\* that every external call returns or times out.
C34_TerminalSignals ==
    /\ []TerminalSignalsSafe
    /\ [](pc = "start" /\ SetupError = ""
             => <>(is_cancelled \/ Emitted("finished")))
    /\ \A n \in 1..MaxSessions :
           [](ocr_pc = "start" /\ session = n /\ gemini_cmd
                 => <>(session = n /\ (ocr_cancelled \/ OcrEmitted("finished"))))

\* The part of C34 that the code keeps: the signals exclude each other, a
\* cancelled run emits no finished unless it is an OcrWorker without images
\* (lines 76-79 emit before any look at the flag), and every run ends and
\* has then emitted finished or error unless it was cancelled.
C34_EndsWithOneSignal ==
    /\ [](/\ OneTerminalSignal(signals)
          /\ OneTerminalSignal(ocr_signals)
          /\ is_cancelled => ~Emitted("finished")
          /\ (ocr_cancelled /\ ocr_images # <<>>) => ~OcrEmitted("finished"))
    /\ [](pc = "start" => <>(pc = "done"))
    /\ [](pc = "done" =>
             is_cancelled \/ Emitted("finished") \/ Emitted("error"))
    /\ \A n \in 1..MaxSessions :
           [](ocr_pc = "start" /\ session = n
                 => <>(session = n /\ ocr_pc = "done"))
    /\ [](ocr_pc = "done" =>
             ocr_cancelled \/ OcrEmitted("finished") \/ OcrEmitted("error"))

\* ------------------------------------------------------------------------
\* C35  Closing events of a grading run
\* ------------------------------------------------------------------------
ProgressEvents == {k \in 1..Len(signals) : signals[k].sig = "progress"}

\* result_ready, or the progress event with the message 'done'.
ClosingEvents ==
    {k \in 1..Len(signals) :
        \/ signals[k].sig = "result_ready"
        \/ signals[k].sig = "progress" /\ signals[k].msg = "done"}

\* C35: run() emits the closing progress event and the result_ready events
\* only when every batch has been processed, so a run whose batch loop was
\* left early because of cancellation emits neither; and in every progress
\* event processedCount <= totalCount, with totalCount the number of input
\* pages.
C35_ClosingEvents ==
    /\ ClosingEvents # {} => batch_start >= LoopTotal
    /\ \A k \in ProgressEvents :
           /\ signals[k].cur <= signals[k].tot
           /\ signals[k].tot = Len(image_files)

\* The part of C35 that the code keeps: a run that was not cancelled emits
\* the closing events after its last batch only, the closing progress event
\* carries the number of input pages twice, and no progress event counts
\* more than its total.
C35_ClosingWhenNotCancelled ==
    /\ (ClosingEvents # {} /\ ~is_cancelled) => batch_start >= LoopTotal
    /\ \A k \in ProgressEvents :
           /\ signals[k].cur <= signals[k].tot
           /\ signals[k].msg = "done" =>
                  signals[k].cur = Len(image_files) /\ signals[k].tot = Len(image_files)

\* ------------------------------------------------------------------------
\* PipelineWorker, steps 2 and 3 of run() (pipeline_worker.py 46-58):
\* _parse_qr_codes (243-268) with parse_scancrop_qrcode_txt
\* (qr_parser.py 160-209), then _crop_answers (130-241).
\* fn_in = [lines, prior]: QRcode.txt with one line per PDF page, and the
\* week Config holds before the run; fn_out = [students, current, written].
\* ------------------------------------------------------------------------
MaxCropPages == 3

CropNow == [year |-> 2026, month |-> 3]

NumField(n) == QrField(ToString(n), TRUE, 1, TRUE, n)

\* The QR value printed on the sheet of page p of the scan, p being the
\* attendance number: a sheet of week 13 of the second term, one of week
\* 12, one of the first term, and a code that reads as a single field.
SheetQr(kind, p) ==
    LET sheet(term, week) ==
            <<QrField("2025", TRUE, 4, TRUE, 2025),
              QrField(term, FALSE, 2, FALSE, 0), NumField(week),
              QrField("A", FALSE, 1, FALSE, 0), NumField(p)>>
    IN IF kind = "week13" THEN sheet("second term", 13)
       ELSE IF kind = "week12" THEN sheet("second term", 12)
       ELSE IF kind = "first_term" THEN sheet("first term", 13)
       ELSE IF kind = "unreadable" THEN <<QrField("A", FALSE, 1, FALSE, 0)>>
       ELSE <<>>

SheetKinds == {"week13", "week12", "first_term", "unreadable", "blank"}

\* A line of QRcode.txt: "QR" (page_str = 0) or "page,QR".
QrLines(n) ==
    { [p \in 1..n |-> [page_str |-> IF numbered THEN p ELSE 0,
                       qr |-> SheetQr(kinds[p], p)]] :
          kinds \in [1..n -> SheetKinds], numbered \in BOOLEAN }

NoWeek == [some |-> FALSE, year |-> 0, term |-> "", week |-> 0, class_name |-> ""]

\* parse_scancrop_qrcode_txt, lines 176-205: blank lines and values that
\* parse_qr_value rejects add nothing to the list.
RECURSIVE scancrop_students(_, _)
scancrop_students(lines, line_no) ==
    IF line_no > Len(lines) THEN <<>>
    ELSE LET line == lines[line_no]
             student == parse_qr_value(line.qr, CropNow)
             rest == scancrop_students(lines, line_no + 1)
         IN IF line.qr = <<>> \/ ~student.some THEN rest
            ELSE <<[student |-> student,
                    page |-> IF line.page_str # 0 THEN line.page_str
                             ELSE line_no]>> \o rest

parse_scancrop_qrcode_txt(lines) == scancrop_students(lines, 1)

WeekKey(st) == [some |-> TRUE, year |-> st.year, term |-> st.term,
                week |-> st.week, class_name |-> st.class_name]

\* Counter(...).most_common(1)[0][0]: the first key met among those with
\* the highest count.
most_common(students) ==
    LET count(k) == Cardinality({i \in 1..Len(students) :
                                     WeekKey(students[i].student) = k})
        best(i) == \A j \in 1..Len(students) :
                       count(WeekKey(students[j].student))
                           <= count(WeekKey(students[i].student))
        first == CHOOSE i \in 1..Len(students) :
                     best(i) /\ \A j \in 1..(i - 1) : ~best(j)
    IN WeekKey(students[first].student)

\* _crop_answers, lines 167-229, for the page at position page_num (from 1):
\* the student is self._students[page_num], the manager of a (term, week)
\* is created for the first page that needs it.
RECURSIVE crop_answers(_, _, _, _)
crop_answers(students, current, n, page_num) ==
    IF page_num = 0 THEN <<>>
    ELSE LET before == crop_answers(students, current, n, page_num - 1)
             has == page_num <= Len(students)
             info == IF has THEN students[page_num].student ELSE NoStudent
             is_additional ==
                 has /\ current.some
                     /\ (info.week # current.week \/ info.term # current.term)
             earlier == {q \in 1..Len(before) :
                            /\ before[q].dest = "additional"
                            /\ before[q].folder.term = info.term
                            /\ before[q].folder.week = info.week}
             target_dir ==
                 IF earlier = {} THEN WeekKey(info)
                 ELSE before[CHOOSE q \in earlier : \A r \in earlier : q <= r].folder
         IN Append(before,
                IF is_additional
                THEN [dest |-> "additional", folder |-> target_dir,
                      filename |-> page_num,
                      attendance_no |-> info.attendance_no]
                ELSE [dest |-> "cropped", folder |-> NoWeek,
                      filename |-> page_num, attendance_no |-> 0])

InitCrop ==
    /\ GOff /\ SOff /\ OOff /\ TextOff /\ WOff
    /\ upc = "input"
    /\ \E n \in 0..MaxCropPages :
           fn_in \in [lines : QrLines(n),
                      prior : {NoWeek, [some |-> TRUE, year |-> 2025,
                                        term |-> "second term", week |-> 13,
                                        class_name |-> "A"]}]
    /\ fn_out = <<>>

\* _parse_qr_codes: the students, and the week with the most sheets becomes
\* the current week.
ParseQrCodes ==
    /\ upc = "input"
    /\ LET students == parse_scancrop_qrcode_txt(fn_in.lines) IN
       fn_out' = [students |-> students,
                  current |-> IF students # <<>> THEN most_common(students)
                              ELSE fn_in.prior,
                  written |-> <<>>]
    /\ upc' = "saved"
    /\ UNCHANGED <<segs, items, text, merged, expected, results, fn_in,
                   gvars, svars, ovars, wvars>>

CropAnswers ==
    /\ upc = "saved"
    /\ fn_out' = [fn_out EXCEPT !.written =
                      crop_answers(fn_out.students, fn_out.current,
                                   Len(fn_in.lines), Len(fn_in.lines))]
    /\ upc' = "done"
    /\ UNCHANGED <<segs, items, text, merged, expected, results, fn_in,
                   gvars, svars, ovars, wvars>>

NextCrop == ParseQrCodes \/ CropAnswers

SpecCrop == InitCrop /\ [][NextCrop]_vars

\* ------------------------------------------------------------------------
\* C36  Routing of scanned pages
\* ------------------------------------------------------------------------
\* The student decoded from the QR code of page p.
DecodedFrom(p) == parse_qr_value(fn_in.lines[p].qr, CropNow)

OtherWeek(st) ==
    /\ st.some /\ fn_out.current.some
    /\ (st.week # fn_out.current.week \/ st.term # fn_out.current.term)

\* C36: _crop_answers writes every page to one destination: the
\* additional-answer folder of its own week when the student decoded from
\* the QR code of that page has a week or term different from the current
\* one, the regular cropped folder otherwise; the student used for page p is
\* the one decoded from page p, also when the QR code of an earlier page
\* could not be parsed.
C36_PageRouting ==
    upc = "done" =>
        /\ Len(fn_out.written) = Len(fn_in.lines)
        /\ \A p \in 1..Len(fn_in.lines) :
               IF OtherWeek(DecodedFrom(p))
               THEN /\ fn_out.written[p].dest = "additional"
                    /\ fn_out.written[p].folder.week = DecodedFrom(p).week
                    /\ fn_out.written[p].folder.term = DecodedFrom(p).term
                    /\ fn_out.written[p].attendance_no = DecodedFrom(p).attendance_no
               ELSE fn_out.written[p].dest = "cropped"

\* The part of C36 that the code keeps: when every QR code of the scan was
\* parsed, every page is routed by its own student.
C36_RoutingWhenAllParsed ==
    (upc = "done"
         /\ \A p \in 1..Len(fn_in.lines) : DecodedFrom(p).some) =>
        /\ Len(fn_out.written) = Len(fn_in.lines)
        /\ \A p \in 1..Len(fn_in.lines) :
               IF OtherWeek(DecodedFrom(p))
               THEN /\ fn_out.written[p].dest = "additional"
                    /\ fn_out.written[p].folder.week = DecodedFrom(p).week
                    /\ fn_out.written[p].folder.term = DecodedFrom(p).term
                    /\ fn_out.written[p].attendance_no = DecodedFrom(p).attendance_no
               ELSE fn_out.written[p].dest = "cropped"

====
